---- MODULE Spec2Model ----
(***************************************************************************)
(* Model of the run supervisor (web/server.py, OrchestratorRunner) and of  *)
(* the pipeline it launches (orchestrator/engine.py, Orchestrator.run)     *)
(* with the journal it feeds (shared/telemetry.py, RunTracker).            *)
(*                                                                         *)
(* Clients are the request handlers calling runner.start(), the poller is  *)
(* a request handler calling runner.status(); every accepted start()       *)
(* creates one runner thread that executes _execute_run.  threading.Lock   *)
(* is modelled explicitly: a with-block is an acquire step followed by one *)
(* step that runs the body and releases the lock.                          *)
(***************************************************************************)
EXTENDS Integers, Sequences, FiniteSets, TLC

\* ------------------------------------------------------------------ bounds
\* start() calls issued, request handlers, postings on the job boards when
\* the supervisor is explored (Spec) and when one pipeline run is (PipeSpec)
MaxCalls == 2
NumClients == 2
MaxBoard == 1
MaxJobs == 3

\* scrapers configured, postings they return in all, distinct URLs
MaxSources == 2
MaxPostings == 3
MaxUrls == 3

\* record_result / record_error calls made on a journal driven directly
MaxRecords == 5
\* worker threads that share one RunTracker, and the record_result /
\* record_error calls they make on it between them
NumWorkers == 2
MaxAppends == 3
\* words in a text handed to the fit scorer
MaxWords == 2
\* entries in an answer of RemoteOK
MaxFetched == 2
\* lines in a run log handed to load_recent_runs
MaxLines == 3

Clients == 1 .. NumClients
Runs == 1 .. MaxCalls
JobIds == 1 .. MaxJobs

\* ------------------------------------------------------- values and records
None == <<>>
Some(v) == <<v>>

\* the lock owner: nobody, a client (request handler) or a runner thread
Free == <<"free", 0>>
Poller == <<"poller", 0>>
ClientId(c) == <<"client", c>>
ThreadId(r) == <<"thread", r>>

\* values of the max_jobs argument of start(): None or an integer
CapValues == {None} \cup {Some(n) : n \in -1 .. MaxJobs}

\* the status the submission collaborator returns to the pipeline (the
\* journal on its own is fed several, see JournalOutcomes), fit scores in
\* 1/10000
SubmitStatuses == {"submitted"}
ScoreValues == {5000}

\* RunRecord(status, total_applications, notes, results)
RunRecord(st, total, notes, results) ==
    [status |-> st, total_applications |-> total, notes |-> notes, results |-> results]

\* self._latest = None
NoRecord == RunRecord("none", 0, None, <<>>)

\* the slice jobs[:n] of Python: a negative n counts from the end
PySlice(s, n) ==
    LET stop == IF n < 0 THEN (IF Len(s) + n < 0 THEN 0 ELSE Len(s) + n)
                ELSE (IF n > Len(s) THEN Len(s) ELSE n)
    IN  SubSeq(s, 1, stop)

\* str(error) of the exceptions the run can end with
ProfileMsg == "Profile file not found"
ScrapeMsg == "RemoteOK scraping failed"
FaultMsg == "fault"

VARIABLES
    lock,       \* OrchestratorRunner._lock: its owner
    active,     \* OrchestratorRunner._active
    latest,     \* OrchestratorRunner._latest
    cpc,        \* per client: position inside start()
    ppc,        \* the poller's position inside status()
    view,       \* the locals (active, latest) of status()
    calls,      \* number of start() calls issued so far
    inBatch,    \* per client: its call in progress was issued while no run
                \* was active, together with the other calls so marked
    batchAcc,   \* how many calls of that batch were accepted
    nthreads,   \* number of threading.Thread objects started
    thr,        \* per runner thread: the locals of _execute_run / run()
    board,      \* the postings the discovery backends hold, deduplicated
    eventLog,   \* lines of logs/run_history.jsonl
    dbRuns,     \* rows of table runs, by run id
    dbApps,     \* rows of table applications, in insertion order
    scraped,    \* what each scraper's search_jobs returned, per source
    merged,      \* the list merge_postings returned for them, once called
    tlock,      \* a shared RunTracker's _lock: the thread that holds it
    wpc,        \* per thread on the shared tracker: position in its call
    wrec,       \* per worker: the record its call has built
    tcalls,     \* record_result / record_error calls made on the shared tracker
    tracker,    \* the shared tracker's _results and _errors
    fin,        \* the locals sorted_results and status_counts of finish()
    sealed,     \* the summary finish() wrote for the shared tracker
    sin,        \* a scorer on its own: its configuration, backend and texts
    sout,       \* what score() returned for them, once called
    asked,      \* whether that call asked the backend for embeddings
    rok,        \* a RemoteOK scraper on its own: its call and what it returned
    bot,        \* a Lever bot on its own: its call and what came of it
    tlr,        \* a resume tailor on its own: its call and what came of it
    rdr         \* a reader of the run log: the file, the call, the answer

vars == <<lock, active, latest, cpc, ppc, view, calls, inBatch, batchAcc,
          nthreads, thr, board, eventLog, dbRuns, dbApps, scraped, merged,
          tlock, wpc, wrec, tcalls, tracker, fin, sealed, sin, sout, asked,
          rok, bot, tlr, rdr>>

supVars == <<lock, active, latest>>
cliVars == <<cpc, calls, inBatch, batchAcc>>
polVars == <<ppc, view>>
thrVars == <<nthreads, thr>>
mrgVars == <<scraped, merged>>
trkVars == <<tlock, wpc, wrec, tcalls, tracker, fin, sealed>>
scoVars == <<sin, sout, asked>>
cmpVars == <<rok, bot, tlr, rdr>>
perVars == <<board, eventLog, dbRuns, dbApps, mrgVars, trkVars, scoVars, cmpVars>>

NoView == [running |-> FALSE, latest |-> NoRecord]

\* max_jobs once run() no longer reads it (after the slice at engine.py:69)
Dropped == <<0, 0>>

\* a thread that has not been created yet
NoThread ==
    [pc |-> "unborn", max_jobs |-> Dropped, jobs |-> <<>>, i |-> 0,
     tailored |-> 0, fit |-> None, results |-> <<>>, errors |-> <<>>,
     out |-> <<>>, ev |-> {}, exc |-> "none", msg |-> "", faults |-> <<>>]

\* a thread whose _execute_run has returned: its locals are gone
DoneThread == [NoThread EXCEPT !.pc = "done"]

\* the job boards hold n distinct postings, in the order discovery meets them
Board(n) == [k \in 1 .. n |-> k]

\* no scraper, bot, tailor or reader is driven on its own
ComponentsIdle == rok = None /\ bot = None /\ tlr = None /\ rdr = None

\* no scorer is driven on its own
ScorerIdle ==
    /\ sin = None
    /\ sout = None
    /\ asked = FALSE

NoHolder == 0
Workers == 1 .. NumWorkers
Finisher == NumWorkers + 1
Threads == Workers \cup {Finisher}

\* RunTracker(query): empty lists, a free lock, telemetry.py:26-34; no call
\* on it has begun
TrackerIdle ==
    /\ tlock = NoHolder
    /\ wpc = [t \in Threads |-> "idle"]
    /\ wrec = [w \in Workers |-> None]
    /\ tcalls = 0
    /\ tracker = [results |-> <<>>, errors |-> <<>>]
    /\ fin = [sorted |-> <<>>, counts |-> <<>>]
    /\ sealed = None

Init ==
    /\ ComponentsIdle
    /\ ScorerIdle
    /\ TrackerIdle
    /\ board \in {Board(n) : n \in 0 .. MaxBoard}
    /\ lock = Free
    /\ active = FALSE
    /\ latest = NoRecord
    /\ cpc = [c \in Clients |-> "idle"]
    /\ ppc = "idle"
    /\ view = NoView
    /\ calls = 0
    /\ inBatch = [c \in Clients |-> FALSE]
    /\ batchAcc = 0
    /\ nthreads = 0
    /\ thr = [r \in Runs |-> NoThread]
    /\ eventLog = <<>>
    /\ dbRuns = {}
    /\ dbApps = <<>>
    /\ scraped = <<>>
    /\ merged = None

\* ---------------------------------------------------------------- clients
\* the calls of start() in progress that form the current batch, and those
\* of them that wait for the outcome of the check
Batch == {c \in Clients : inBatch[c]}
Undecided == {c \in Clients : cpc[c] \in {"start_wait", "start_cs"}}

\* a request handler enters runner.start(): trigger_run, server.py:219.
\* The call joins the batch when it is issued while no run is active, no
\* call of the batch has been accepted and all of them are still undecided.
\* Request handlers are interchangeable: the request goes to the first idle
\* one.
StartCall(c) ==
    /\ cpc[c] = "idle"
    /\ \A d \in 1 .. c - 1 : cpc[d] # "idle"
    /\ calls < MaxCalls
    /\ calls' = calls + 1
    /\ cpc' = [cpc EXCEPT ![c] = "start_wait"]
    /\ inBatch' = [inBatch EXCEPT ![c] =
                      ~active /\ batchAcc = 0 /\ Batch \subseteq Undecided]
    /\ UNCHANGED <<batchAcc, polVars, supVars, thrVars, perVars>>

\* with self._lock: (server.py:70) blocks until the lock is free
StartAcquire(c) ==
    /\ cpc[c] = "start_wait"
    /\ lock = Free
    /\ lock' = ClientId(c)
    /\ cpc' = [cpc EXCEPT ![c] = "start_cs"]
    /\ UNCHANGED <<active, latest, polVars, calls, inBatch, batchAcc,
                   thrVars, perVars>>

\* bookkeeping of an accepted call
Accepted(c) ==
    /\ batchAcc' = batchAcc + (IF inBatch[c] THEN 1 ELSE 0)
    /\ UNCHANGED <<inBatch, calls>>

\* start() without the test of self._active: every call is accepted
StartCheck_NoGuard(c) ==
    /\ cpc[c] = "start_cs"
    /\ lock = ClientId(c)
    /\ lock' = Free
    /\ active' = TRUE
    /\ latest' = RunRecord("running", 0, None, <<>>)
    /\ cpc' = [cpc EXCEPT ![c] = "start_spawn"]
    /\ Accepted(c)
    /\ UNCHANGED <<polVars, thrVars, perVars>>

\* start() storing the "running" record before it tests self._active
StartCheck_WriteFirst(c) ==
    /\ cpc[c] = "start_cs"
    /\ lock = ClientId(c)
    /\ lock' = Free
    /\ latest' = RunRecord("running", 0, None, <<>>)
    /\ IF active
       THEN /\ cpc' = [cpc EXCEPT ![c] = "start_raise"]
            /\ UNCHANGED <<active, calls, inBatch, batchAcc>>
       ELSE /\ active' = TRUE
            /\ cpc' = [cpc EXCEPT ![c] = "start_spawn"]
            /\ Accepted(c)
    /\ UNCHANGED <<polVars, thrVars, perVars>>

\* the body of the with-block of start(), server.py:71-74, and the release
StartCheck(c) ==
    /\ cpc[c] = "start_cs"
    /\ lock = ClientId(c)
    /\ lock' = Free
    /\ IF active
       THEN \* raise RuntimeError("A run is already in progress.")
            /\ cpc' = [cpc EXCEPT ![c] = "start_raise"]
            /\ UNCHANGED <<active, latest, calls, inBatch, batchAcc>>
       ELSE /\ active' = TRUE
            /\ latest' = RunRecord("running", 0, None, <<>>)
            /\ cpc' = [cpc EXCEPT ![c] = "start_spawn"]
            /\ Accepted(c)
    /\ UNCHANGED <<polVars, thrVars, perVars>>

\* the call of start() is over for client c; the batch ends with its last call
Return(c) ==
    /\ cpc' = [cpc EXCEPT ![c] = "idle"]
    /\ inBatch' = [inBatch EXCEPT ![c] = FALSE]
    /\ batchAcc' = IF Batch \subseteq {c} THEN 0 ELSE batchAcc
    /\ UNCHANGED calls

\* threading.Thread(target=self._execute_run, ...).start(), server.py:76-81;
\* start() returns and trigger_run answers that the run was initiated
StartSpawn(c) ==
    /\ cpc[c] = "start_spawn"
    /\ nthreads < MaxCalls
    /\ thr' = [thr EXCEPT ![nthreads + 1] = [NoThread EXCEPT !.pc = "setup"]]
    /\ nthreads' = nthreads + 1
    /\ Return(c)
    /\ UNCHANGED <<supVars, polVars, perVars>>

\* the RuntimeError reaches trigger_run, which answers 409, server.py:220-221
StartRaise(c) ==
    /\ cpc[c] = "start_raise"
    /\ Return(c)
    /\ UNCHANGED <<supVars, polVars, thrVars, perVars>>

\* ----------------------------------------------------------------- poller
\* get_status calls runner.status() (server.py:230); with self._lock:
\* (server.py:113) blocks until the lock is free
StatusAcquire ==
    /\ ppc = "idle"
    /\ lock = Free
    /\ lock' = Poller
    /\ ppc' = "status_cs"
    /\ UNCHANGED <<active, latest, view, cliVars, thrVars, perVars>>

\* active = self._active; latest = self._latest (server.py:114-115), release
StatusRead ==
    /\ ppc = "status_cs"
    /\ lock = Poller
    /\ lock' = Free
    /\ view' = [running |-> active, latest |-> latest]
    /\ ppc' = "status_ret"
    /\ UNCHANGED <<active, latest, cliVars, thrVars, perVars>>

\* the payload built from the two locals is returned (server.py:117-137)
StatusReturn ==
    /\ ppc = "status_ret"
    /\ view' = NoView
    /\ ppc' = "idle"
    /\ UNCHANGED <<supVars, cliVars, thrVars, perVars>>

\* ---------------------------------------------------------- runner thread
\* the current candidate of the loop `for job in jobs`
Job(r) == thr[r].jobs[thr[r].i]

\* the exception leaves run(): _execute_run goes to its except clauses.
\* The RunTracker does not exist yet, so nothing is flushed.
RaiseBeforeLoop(r, kind, msg) ==
    thr' = [thr EXCEPT ![r].pc = "rec_wait", ![r].exc = kind, ![r].msg = msg]

\* AppConfig.load(); setup_logging(); Orchestrator(config=config),
\* server.py:85-87: any failure here is outside the project's hierarchy
Setup(r) ==
    /\ thr[r].pc = "setup"
    /\ \/ thr' = [thr EXCEPT ![r].pc = "profile"]
       \/ RaiseBeforeLoop(r, "other", FaultMsg)
    /\ UNCHANGED <<supVars, cliVars, polVars, nthreads, perVars>>

\* profile = self._profile_manager.load(), engine.py:63
LoadProfile(r) ==
    /\ thr[r].pc = "profile"
    /\ \/ thr' = [thr EXCEPT ![r].pc = "discover"]
       \/ RaiseBeforeLoop(r, "own", ProfileMsg)
       \/ RaiseBeforeLoop(r, "other", FaultMsg)
    /\ UNCHANGED <<supVars, cliVars, polVars, nthreads, perVars>>

\* run() without the slice: the cap is ignored
Truncate_NoCap(found, max_jobs) == found

\* the list run(max_jobs) processes, engine.py:67-69
Truncate(found, max_jobs) ==
    IF max_jobs = None THEN found ELSE PySlice(found, max_jobs[1])

\* jobs = self._scraper_service.discover(query); jobs = jobs[:max_jobs];
\* tracker = RunTracker(query=query), engine.py:66-72.  max_jobs is the
\* argument start() was called with; nothing reads it before this point, so
\* it is drawn here.  The loop starts at the first entry of the list.
Discover(r) ==
    /\ thr[r].pc = "discover"
    /\ \/ \E max_jobs \in CapValues :
           LET jobs == Truncate(board, max_jobs)
           IN  thr' = [thr EXCEPT ![r].max_jobs = max_jobs,
                                   ![r].jobs = jobs,
                                   ![r].i = IF jobs = <<>> THEN 0 ELSE 1,
                                   ![r].pc = IF jobs = <<>> THEN "finish" ELSE "tailor"]
       \/ RaiseBeforeLoop(r, "own", ScrapeMsg)
       \/ RaiseBeforeLoop(r, "other", FaultMsg)
    /\ UNCHANGED <<supVars, cliVars, polVars, nthreads, perVars>>

\* the record of tracker.record_error(job, error), telemetry.py:49-57
ErrorRecord(job, error) == [job |-> job, error |-> error]

\* the record of an ApplicationResult / tracker.record_result
ResultRecord(job, st, fit) == [job |-> job, status |-> st, fit_score |-> fit]

\* a loop that steps over the candidate after the current one
Advance_SkipOne(t) ==
    [t EXCEPT !.i = t.i + 2,
              !.pc = IF t.i + 2 <= Len(t.jobs) THEN "tailor" ELSE "finish"]

\* a run() without its finally clause: the exhausted loop returns at once
Advance_NoFinally(t) ==
    [t EXCEPT !.i = t.i + 1,
              !.pc = IF t.i + 1 <= Len(t.jobs) THEN "tailor" ELSE "rec_wait"]

\* the thread after the loop body ended for the current candidate: the next
\* candidate, or the finally clause when the list is exhausted
Advance(t) ==
    [t EXCEPT !.i = t.i + 1,
              !.pc = IF t.i + 1 <= Len(t.jobs) THEN "tailor" ELSE "finish"]

\* the tailoring guard without its except clauses: the exception leaves the
\* loop and reaches the finally clause of run()
AfterTailorFailure_Abort(t) ==
    [t EXCEPT !.pc = "finish", !.exc = "own", !.msg = FaultMsg]

\* the tailoring guard without `continue`: the loop body goes on to scoring
AfterTailorFailure_FallThrough(t) == [t EXCEPT !.pc = "score"]

\* the tailoring guard whose except clauses log and `continue` without
\* tracker.record_error
AfterTailorFailure_Unrecorded(t) ==
    Advance([t EXCEPT !.errors = SubSeq(t.errors, 1, Len(t.errors) - 1)])

\* the thread after `except ... continue` of the tailoring guard
AfterTailorFailure(t) == Advance(t)

\* tailored_resume = self._resume_tailor.tailor(profile, job) with its two
\* except clauses, engine.py:76-95
Tailor(r) ==
    /\ thr[r].pc = "tailor"
    /\ LET t == thr[r]
           job == Job(r)
       IN  \/ thr' = [thr EXCEPT ![r] =
                        [t EXCEPT !.tailored = job, !.pc = "score", !.max_jobs = Dropped,
                                  !.ev = t.ev \cup {<<"tailor_ok", job>>}]]
           \/ thr' = [thr EXCEPT ![r] = AfterTailorFailure(
                        [t EXCEPT !.max_jobs = Dropped,
                                  !.errors = Append(t.errors,
                                      ErrorRecord(job, "Tailoring failed: " \o FaultMsg)),
                                  !.ev = t.ev \cup {<<"tailor_err", job>>}])]
           \/ thr' = [thr EXCEPT ![r] = AfterTailorFailure(
                        [t EXCEPT !.max_jobs = Dropped,
                                  !.errors = Append(t.errors,
                                      ErrorRecord(job, "Unexpected tailoring error: " \o FaultMsg)),
                                  !.ev = t.ev \cup {<<"tailor_unexp", job>>}])]
    /\ UNCHANGED <<supVars, cliVars, polVars, nthreads, perVars>>

\* fit_score = self._scorer.score(...), engine.py:97-100.  The call stands
\* outside the per-candidate try blocks: what it raises leaves the loop and
\* reaches the finally clause of run().
Score(r) ==
    /\ thr[r].pc = "score"
    /\ LET t == thr[r]
           job == Job(r)
       IN  \/ \E v \in ScoreValues :
                thr' = [thr EXCEPT ![r] =
                          [t EXCEPT !.fit = Some(v), !.pc = "submit",
                                    !.ev = t.ev \cup {<<"score_ok", job>>}]]
           \/ thr' = [thr EXCEPT ![r] =
                        [t EXCEPT !.pc = "finish", !.exc = "other", !.msg = FaultMsg,
                                  !.ev = t.ev \cup {<<"score_unexp", job>>}]]
    /\ UNCHANGED <<supVars, cliVars, polVars, nthreads, perVars>>

\* the ways submit_application(resume=tailored_resume) can end: reading an
\* unbound tailored_resume is an UnboundLocalError inside the try block
SubmitOutcomes(t) == IF t.tailored = 0 THEN {"unexp"} ELSE {"ok", "err", "unexp"}

\* application_result = self._application_bot.submit_application(...);
\* fit_score attached; record_result; yield; and the two except clauses,
\* engine.py:102-132
Submit(r) ==
    /\ thr[r].pc = "submit"
    /\ LET t == thr[r]
           job == Job(r)
       IN  \E oc \in SubmitOutcomes(t) :
             \/ /\ oc = "ok"
                /\ \E st \in SubmitStatuses :
                     LET result == ResultRecord(job, st, t.fit)
                     IN  thr' = [thr EXCEPT ![r] = Advance(
                                   [t EXCEPT !.results = Append(t.results, result),
                                             !.out = Append(t.out, result),
                                             !.ev = t.ev \cup {<<"submit_ok", job>>}])]
             \/ /\ oc = "err"
                /\ thr' = [thr EXCEPT ![r] = Advance(
                             [t EXCEPT !.errors = Append(t.errors,
                                           ErrorRecord(job, "Application failed: " \o FaultMsg)),
                                       !.ev = t.ev \cup {<<"submit_err", job>>}])]
             \/ /\ oc = "unexp"
                /\ thr' = [thr EXCEPT ![r] = Advance(
                             [t EXCEPT !.errors = Append(t.errors,
                                           ErrorRecord(job, "Unexpected application error: " \o FaultMsg)),
                                       !.ev = t.ev \cup {<<"submit_unexp", job>>}])]
    /\ UNCHANGED <<supVars, cliVars, polVars, nthreads, perVars>>

\* key=lambda record: record.get("fit_score") or 0.0, telemetry.py:64
FitKey(record) == IF record.fit_score = None THEN 0 ELSE record.fit_score[1]

\* a descending sort that puts a later record before an earlier equal one
StaysBefore_Unstable(earlier, later) == FitKey(earlier) > FitKey(later)

\* sorted(..., reverse=True) is stable: an earlier record stays before a
\* later one unless its key is smaller, telemetry.py:62-66
StaysBefore(earlier, later) == FitKey(earlier) >= FitKey(later)

\* the place of a record among the records sorted so far
RECURSIVE InsertSorted(_, _)
InsertSorted(sorted, record) ==
    IF sorted = <<>> THEN <<record>>
    ELSE IF StaysBefore(Head(sorted), record)
         THEN <<Head(sorted)>> \o InsertSorted(Tail(sorted), record)
         ELSE <<record>> \o sorted

\* sorted_results = sorted(self._results, key=..., reverse=True): the
\* records are taken in list order, which fixes the result of a stable sort
RECURSIVE SortFrom(_, _)
SortFrom(records, sorted) ==
    IF records = <<>> THEN sorted
    ELSE SortFrom(Tail(records), InsertSorted(sorted, Head(records)))

SortedResults(results) == SortFrom(results, <<>>)

\* a slice that takes four entries
TopMatches_Four(results) == PySlice(SortedResults(results), 4)

\* "top_matches": sorted_results[:3], telemetry.py:79
TopMatches(results) == PySlice(SortedResults(results), 3)

\* a Counter that notes a status without counting it
CountOne_Flag(counts, st) ==
    IF st \in DOMAIN counts THEN counts ELSE counts @@ (st :> 1)

\* Counter: one more occurrence of st
CountOne(counts, st) ==
    IF st \in DOMAIN counts THEN [counts EXCEPT ![st] = @ + 1]
    ELSE counts @@ (st :> 1)

\* status_counts = Counter(record["status"] for record in self._results),
\* telemetry.py:67
RECURSIVE CountFrom(_, _)
CountFrom(records, counts) ==
    IF records = <<>> THEN counts
    ELSE CountFrom(Tail(records), CountOne(counts, Head(records).status))

StatusCounts(results) == CountFrom(results, <<>>)

\* the summary finish() assembles, telemetry.py:68-80 (run_id is a fresh
\* uuid4 per tracker: the thread's number)
Summary(r) ==
    [run_id |-> r, result_count |-> Len(thr[r].results),
     status_counts |-> StatusCounts(thr[r].results),
     errors |-> thr[r].errors, results |-> thr[r].results,
     top_matches |-> TopMatches(thr[r].results)]

\* what a line of the event log and a row of table runs are identified by
Stored(summary) == [run_id |-> summary.run_id]

\* INSERT OR REPLACE INTO runs, persistence.py:71-85
UpsertRun(rows, summary) ==
    {row \in rows : row.run_id # summary.run_id} \cup {Stored(summary)}

\* a log opened for writing instead of appending
AppendLine_Rewrite(log, summary) == <<Stored(summary)>>

\* path.open("a") ... handle.write(json.dumps(payload) + "\\n"),
\* telemetry.py:91-92
AppendLine(log, summary) == Append(log, Stored(summary))

\* INSERT INTO applications, one row per entry of summary["results"],
\* persistence.py:87-108
InsertApplications(rows, summary) ==
    rows \o [k \in 1 .. Len(summary.results) |-> Stored(summary)]

\* self._write(summary); persist_run_summary(summary), telemetry.py:81-82.
\* The line is appended and then the transaction is committed; a failing
\* append raises before the store is touched, a failing transaction is
\* rolled back when the connection is closed.
WriteSummary(summary) ==
    /\ eventLog' = AppendLine(eventLog, summary)
    /\ dbRuns' = UpsertRun(dbRuns, summary)
    /\ dbApps' = InsertApplications(dbApps, summary)

WriteFails == UNCHANGED <<eventLog, dbRuns, dbApps>>

PersistFails(summary) ==
    /\ eventLog' = AppendLine(eventLog, summary)
    /\ UNCHANGED <<dbRuns, dbApps>>

\* what can go wrong while finish() writes: <<the append to the event log
\* fails, the transaction on the store fails>>
FaultPlans == BOOLEAN \X BOOLEAN

\* a finish() that calls persist_run_summary before self._write: a failing
\* append leaves the store written
FinishWrites_StoreFirst(summary, faults) ==
    IF faults[2] THEN WriteFails
    ELSE IF faults[1]
    THEN /\ dbRuns' = UpsertRun(dbRuns, summary)
         /\ dbApps' = InsertApplications(dbApps, summary)
         /\ UNCHANGED eventLog
    ELSE WriteSummary(summary)

\* the two calls at telemetry.py:81-82 in sequence: persist_run_summary is
\* reached only when self._write returned
FinishWrites(summary, faults) ==
    IF faults[1] THEN WriteFails
    ELSE IF faults[2] THEN PersistFails(summary)
    ELSE WriteSummary(summary)

\* a finish() that swallows the failure of the store
FinishRaises_StoreSwallowed(faults) == faults[1]

\* finish() has no except clause: it raises when one of its writes does
FinishRaises(faults) == faults[1] \/ faults[2]

\* the thread when run() is left: the generator's frame is gone, what stays
\* is the list of yielded results and the exception, if any
LeaveRun(t, kind, msg) ==
    [NoThread EXCEPT !.pc = "rec_wait", !.out = t.out, !.exc = kind, !.msg = msg]

\* finally: tracker.finish(), engine.py:133-134 with telemetry.py:59-82:
\* self._write(summary) and then persist_run_summary(summary).  A failing
\* write raises out of finish() and of run(); otherwise a pending exception
\* continues, or the generator is exhausted.
Finish(r) ==
    /\ thr[r].pc = "finish"
    /\ LET t == thr[r]
       IN  \E faults \in FaultPlans :
             /\ FinishWrites(Summary(r), faults)
             /\ thr' = [thr EXCEPT ![r] =
                          IF FinishRaises(faults) THEN LeaveRun(t, "other", FaultMsg)
                          ELSE LeaveRun(t, t.exc, t.msg)]
    /\ UNCHANGED <<supVars, cliVars, polVars, nthreads, board, mrgVars, trkVars, scoVars, cmpVars>>

\* with self._lock: of the try body or of an except clause, server.py:90/97/103
RecordAcquire(r) ==
    /\ thr[r].pc = "rec_wait"
    /\ lock = Free
    /\ lock' = ThreadId(r)
    /\ thr' = [thr EXCEPT ![r].pc = "rec_cs"]
    /\ UNCHANGED <<active, latest, cliVars, polVars, nthreads, perVars>>

\* _execute_run without its `except Exception` clause: an error outside the
\* project's hierarchy leaves the record as it was
TerminalRecord_NoCatchAll(t) ==
    IF t.exc = "none" THEN RunRecord("completed", Len(t.out), None, t.out)
    ELSE IF t.exc = "own" THEN RunRecord("failed", 0, Some(t.msg), <<>>)
    ELSE latest

\* _execute_run with `except Exception` placed before the clause for
\* AgenticJobHunterError
TerminalRecord_CatchAllFirst(t) ==
    IF t.exc = "none" THEN RunRecord("completed", Len(t.out), None, t.out)
    ELSE RunRecord("failed", 0, Some("Unexpected error: " \o t.msg), <<>>)

\* the RunRecord _execute_run stores for the way the pipeline ended,
\* server.py:91-95, 98-101, 104-107
TerminalRecord(t) ==
    IF t.exc = "none" THEN RunRecord("completed", Len(t.out), None, t.out)
    ELSE IF t.exc = "own" THEN RunRecord("failed", 0, Some(t.msg), <<>>)
    ELSE RunRecord("failed", 0, Some("Unexpected error: " \o t.msg), <<>>)

\* self._latest = RunRecord(...) and the release of the lock
RecordLatest(r) ==
    /\ thr[r].pc = "rec_cs"
    /\ lock = ThreadId(r)
    /\ lock' = Free
    /\ latest' = TerminalRecord(thr[r])
    /\ thr' = [thr EXCEPT ![r].pc = "clr_wait"]
    /\ UNCHANGED <<active, cliVars, polVars, nthreads, perVars>>

\* finally: with self._lock:, server.py:108-109
ClearAcquire(r) ==
    /\ thr[r].pc = "clr_wait"
    /\ lock = Free
    /\ lock' = ThreadId(r)
    /\ thr' = [thr EXCEPT ![r].pc = "clr_cs"]
    /\ UNCHANGED <<active, latest, cliVars, polVars, nthreads, perVars>>

\* self._active = False at the end of the try body instead of in finally:
\* a run that raised leaves the flag set
ClearActive_TryOnly(r) ==
    /\ thr[r].pc = "clr_cs"
    /\ lock = ThreadId(r)
    /\ lock' = Free
    /\ active' = IF thr[r].exc = "none" THEN FALSE ELSE active
    /\ thr' = [thr EXCEPT ![r] = DoneThread]
    /\ UNCHANGED <<latest, cliVars, polVars, nthreads, perVars>>

\* self._active = False, server.py:110; the thread ends
ClearActive(r) ==
    /\ thr[r].pc = "clr_cs"
    /\ lock = ThreadId(r)
    /\ lock' = Free
    /\ active' = FALSE
    /\ thr' = [thr EXCEPT ![r] = DoneThread]
    /\ UNCHANGED <<latest, cliVars, polVars, nthreads, perVars>>

\* ------------------------------------------------------------ specification
ClientStep(c) ==
    \/ StartCall(c)
    \/ StartAcquire(c)
    \/ StartCheck(c)
    \/ StartSpawn(c)
    \/ StartRaise(c)

PollerStep ==
    \/ StatusAcquire
    \/ StatusRead
    \/ StatusReturn

PipelineStep(r) ==
    \/ Setup(r)
    \/ LoadProfile(r)
    \/ Discover(r)
    \/ Tailor(r)
    \/ Score(r)
    \/ Submit(r)
    \/ Finish(r)

WrapperStep(r) ==
    \/ RecordAcquire(r)
    \/ RecordLatest(r)
    \/ ClearAcquire(r)
    \/ ClearActive(r)

Next ==
    \/ \E c \in Clients : ClientStep(c)
    \/ PollerStep
    \/ \E r \in Runs : PipelineStep(r)
    \/ \E r \in Runs : WrapperStep(r)

Spec == Init /\ [][Next]_vars

\* ------------------------------------------------------ discovery merging
\* a JobPosting: its url, the scraper that returned it and its place in that
\* scraper's list (what tells two postings with the same url apart)
Posting(u, s, n) == [url |-> u, source |-> s, n |-> n]

\* the list scraper s returns when it finds the given urls in this order
Postings(urls, s) == [n \in 1 .. Len(urls) |-> Posting(urls[n], s, n)]

\* the sequences over S of length at most n
SeqUpTo(S, n) == UNION {[1 .. k -> S] : k \in 0 .. n}

\* the ways to cut a list of n postings into MaxSources consecutive parts
Cuts(n) ==
    {c \in [0 .. MaxSources -> 0 .. n] :
        /\ c[0] = 0
        /\ c[MaxSources] = n
        /\ \A s \in 1 .. MaxSources : c[s - 1] <= c[s]}

\* what the configured scrapers can return: search_jobs of every scraper in
\* configured order, service.py:18-21; at most MaxPostings postings in all
ScrapedInputs ==
    UNION {{[s \in 1 .. MaxSources |->
                Postings(SubSeq(urls, c[s - 1] + 1, c[s]), s)] : c \in Cuts(Len(urls))} :
            urls \in SeqUpTo(1 .. MaxUrls, MaxPostings)}

\* merge_postings without seen_urls.add
AddSeen_Skip(seen_urls, posting) == seen_urls

\* seen_urls.add(posting.url), base.py:43
AddSeen(seen_urls, posting) == seen_urls \cup {posting.url}

\* for posting in iterable: ..., base.py:40-44
RECURSIVE MergeIterable(_, _)
MergeIterable(iterable, acc) ==
    IF iterable = <<>> THEN acc
    ELSE LET posting == Head(iterable)
         IN  IF posting.url \in acc.seen_urls
             THEN MergeIterable(Tail(iterable), acc)
             ELSE MergeIterable(Tail(iterable),
                      [seen_urls |-> AddSeen(acc.seen_urls, posting),
                       merged |-> Append(acc.merged, posting)])

\* for iterable in iterables: ..., base.py:39
RECURSIVE MergeIterables(_, _)
MergeIterables(iterables, acc) ==
    IF iterables = <<>> THEN acc
    ELSE MergeIterables(Tail(iterables), MergeIterable(Head(iterables), acc))

\* merge_postings(*iterables), base.py:32-46
merge_postings(iterables) ==
    MergeIterables(iterables, [seen_urls |-> {}, merged |-> <<>>]).merged

\* JobScraperService.discover: return merge_postings(*results), service.py:22
DiscoverMerged ==
    /\ merged = None
    /\ merged' = Some(merge_postings(scraped))
    /\ UNCHANGED <<supVars, cliVars, polVars, thrVars, board, eventLog,
                   dbRuns, dbApps, scraped, trkVars, scoVars, cmpVars>>

\* The discovery service on its own: the scrapers have returned their lists.
MergeInit ==
    /\ ComponentsIdle
    /\ ScorerIdle
    /\ TrackerIdle
    /\ scraped \in ScrapedInputs
    /\ merged = None
    /\ board = <<>>
    /\ lock = Free
    /\ active = FALSE
    /\ latest = NoRecord
    /\ cpc = [c \in Clients |-> "idle"]
    /\ ppc = "idle"
    /\ view = NoView
    /\ calls = 0
    /\ inBatch = [c \in Clients |-> FALSE]
    /\ batchAcc = 0
    /\ nthreads = 0
    /\ thr = [r \in Runs |-> NoThread]
    /\ eventLog = <<>>
    /\ dbRuns = {}
    /\ dbApps = <<>>

MergeNext == DiscoverMerged

MergeSpec == MergeInit /\ [][MergeNext]_vars

\* ------------------------------------------------------------ the journal
\* what record_result is called with on a journal driven directly: status
\* and fit_score of the ApplicationResult (fit_score defaults to None)
JournalOutcomes ==
    {<<"submitted", None>>, <<"pending-human-review", Some(0)>>,
     <<"submitted", Some(2000)>>, <<"pending-human-review", Some(5000)>>,
     <<"submitted", Some(9000)>>}

\* the number of the next candidate handed to the journal
NextJob(t) == Len(t.results) + Len(t.errors) + 1

\* tracker.record_result(result), telemetry.py:36-47
RecordResult(r) ==
    /\ thr[r].pc = "journal"
    /\ NextJob(thr[r]) <= MaxRecords
    /\ \E o \in JournalOutcomes :
          thr' = [thr EXCEPT ![r].results =
                     Append(@, ResultRecord(NextJob(thr[r]), o[1], o[2]))]
    /\ UNCHANGED <<supVars, cliVars, polVars, nthreads, perVars>>

\* tracker.record_error(job, error), telemetry.py:49-57
RecordError(r) ==
    /\ thr[r].pc = "journal"
    /\ NextJob(thr[r]) <= MaxRecords
    /\ thr' = [thr EXCEPT ![r].errors =
                  Append(@, ErrorRecord(NextJob(thr[r]), FaultMsg))]
    /\ UNCHANGED <<supVars, cliVars, polVars, nthreads, perVars>>

\* tracker.finish(), telemetry.py:59-82, called on the journal a first and a
\* second time; a failing write raises to the caller.  What went wrong and
\* how the call ended stay visible.
TrackerFinish(r) ==
    /\ thr[r].pc \in {"journal", "flushed"}
    /\ \E faults \in FaultPlans :
          /\ FinishWrites(Summary(r), faults)
          /\ thr' = [thr EXCEPT
                        ![r].pc = IF @ = "journal" THEN "flushed" ELSE "reflushed",
                        ![r].faults = faults,
                        ![r].exc = IF FinishRaises(faults) THEN "other" ELSE "none"]
    /\ UNCHANGED <<supVars, cliVars, polVars, nthreads, board, mrgVars, trkVars, scoVars, cmpVars>>

\* One journal on its own: RunTracker(query=query) has been constructed.
JournalInit ==
    /\ ComponentsIdle
    /\ ScorerIdle
    /\ TrackerIdle
    /\ thr = [r \in Runs |-> IF r = 1 THEN [NoThread EXCEPT !.pc = "journal"]
                                       ELSE NoThread]
    /\ nthreads = 0
    /\ board = <<>>
    /\ lock = Free
    /\ active = FALSE
    /\ latest = NoRecord
    /\ cpc = [c \in Clients |-> "idle"]
    /\ ppc = "idle"
    /\ view = NoView
    /\ calls = 0
    /\ inBatch = [c \in Clients |-> FALSE]
    /\ batchAcc = 0
    /\ eventLog = <<>>
    /\ dbRuns = {}
    /\ dbApps = <<>>
    /\ scraped = <<>>
    /\ merged = None

JournalNext ==
    \E r \in Runs :
        \/ RecordResult(r)
        \/ RecordError(r)
        \/ TrackerFinish(r)

JournalSpec == JournalInit /\ [][JournalNext]_vars

\* ------------------------------------------- one tracker, several threads
\* what the workers call record_result with: status and fit_score
TrackerOutcomes ==
    {<<"submitted", Some(9000)>>, <<"pending-human-review", Some(2000)>>}

sysVars == <<supVars, cliVars, polVars, thrVars, board, mrgVars, scoVars, cmpVars>>

\* record_result builds its record before it asks for the lock,
\* telemetry.py:37-45; the candidate is the number of the call
CallRecordResult(w) ==
    /\ wpc[w] = "idle"
    /\ tcalls < MaxAppends
    /\ \E oc \in TrackerOutcomes :
          wrec' = [wrec EXCEPT ![w] =
                     <<"result", ResultRecord(tcalls + 1, oc[1], oc[2])>>]
    /\ tcalls' = tcalls + 1
    /\ wpc' = [wpc EXCEPT ![w] = "acquire"]
    /\ UNCHANGED <<tlock, tracker, fin, sealed, sysVars, eventLog, dbRuns, dbApps>>

\* record_error likewise, telemetry.py:50-55
CallRecordError(w) ==
    /\ wpc[w] = "idle"
    /\ tcalls < MaxAppends
    /\ wrec' = [wrec EXCEPT ![w] =
                  <<"error", ErrorRecord(tcalls + 1, FaultMsg)>>]
    /\ tcalls' = tcalls + 1
    /\ wpc' = [wpc EXCEPT ![w] = "acquire"]
    /\ UNCHANGED <<tlock, tracker, fin, sealed, sysVars, eventLog, dbRuns, dbApps>>

\* a lock that anyone may take at any time
Available_Always(holder) == TRUE

\* threading.Lock: taken only when nobody holds it
Available(holder) == holder = NoHolder

\* with self._lock: entry, telemetry.py:46, 56, 60
LockTracker(t) ==
    /\ wpc[t] = "acquire"
    /\ Available(tlock)
    /\ tlock' = t
    /\ wpc' = [wpc EXCEPT ![t] = "locked"]
    /\ UNCHANGED <<wrec, tcalls, tracker, fin, sealed, sysVars, eventLog,
                   dbRuns, dbApps>>

\* self._results.append(record) / self._errors.append(record) and the end
\* of the with block, telemetry.py:46-47, 56-57
AppendRecord(w) ==
    /\ wpc[w] = "locked"
    /\ tracker' = IF wrec[w][1] = "result"
                  THEN [tracker EXCEPT !.results = Append(@, wrec[w][2])]
                  ELSE [tracker EXCEPT !.errors = Append(@, wrec[w][2])]
    /\ wrec' = [wrec EXCEPT ![w] = None]
    /\ tlock' = NoHolder
    /\ wpc' = [wpc EXCEPT ![w] = "idle"]
    /\ UNCHANGED <<tcalls, fin, sealed, sysVars, eventLog, dbRuns, dbApps>>

\* the one call of finish() on the tracker
CallFinish ==
    /\ wpc[Finisher] = "idle"
    /\ wpc' = [wpc EXCEPT ![Finisher] = "acquire"]
    /\ UNCHANGED <<tlock, wrec, tcalls, tracker, fin, sealed, sysVars,
                   eventLog, dbRuns, dbApps>>

\* sorted_results = sorted(self._results, ...), telemetry.py:62-66
FinishSort ==
    /\ wpc[Finisher] = "locked"
    /\ fin' = [fin EXCEPT !.sorted = SortedResults(tracker.results)]
    /\ wpc' = [wpc EXCEPT ![Finisher] = "sorted"]
    /\ UNCHANGED <<tlock, wrec, tcalls, tracker, sealed, sysVars, eventLog,
                   dbRuns, dbApps>>

\* status_counts = Counter(...), telemetry.py:67
FinishCount ==
    /\ wpc[Finisher] = "sorted"
    /\ fin' = [fin EXCEPT !.counts = StatusCounts(tracker.results)]
    /\ wpc' = [wpc EXCEPT ![Finisher] = "counted"]
    /\ UNCHANGED <<tlock, wrec, tcalls, tracker, sealed, sysVars, eventLog,
                   dbRuns, dbApps>>

\* the summary dict read from the lists and the two locals,
\* telemetry.py:68-80
SharedSummary ==
    [run_id |-> 1, result_count |-> Len(tracker.results),
     status_counts |-> fin.counts,
     errors |-> tracker.errors, results |-> tracker.results,
     top_matches |-> PySlice(fin.sorted, 3)]

\* the summary is assembled and written and the with block ends, by return
\* or by the exception of a write, telemetry.py:68-82
FinishSeal ==
    /\ wpc[Finisher] = "counted"
    /\ \E faults \in FaultPlans : FinishWrites(SharedSummary, faults)
    /\ sealed' = Some(SharedSummary)
    /\ tlock' = NoHolder
    /\ wpc' = [wpc EXCEPT ![Finisher] = "done"]
    /\ UNCHANGED <<wrec, tcalls, tracker, fin, sysVars>>

TrackerInit ==
    /\ ComponentsIdle
    /\ ScorerIdle
    /\ TrackerIdle
    /\ board = <<>>
    /\ lock = Free
    /\ active = FALSE
    /\ latest = NoRecord
    /\ cpc = [c \in Clients |-> "idle"]
    /\ ppc = "idle"
    /\ view = NoView
    /\ calls = 0
    /\ inBatch = [c \in Clients |-> FALSE]
    /\ batchAcc = 0
    /\ nthreads = 0
    /\ thr = [r \in Runs |-> NoThread]
    /\ eventLog = <<>>
    /\ dbRuns = {}
    /\ dbApps = <<>>
    /\ scraped = <<>>
    /\ merged = None

TrackerNext ==
    \/ \E w \in Workers :
          \/ CallRecordResult(w)
          \/ CallRecordError(w)
          \/ AppendRecord(w)
    \/ \E t \in Threads : LockTracker(t)
    \/ CallFinish
    \/ FinishSort
    \/ FinishCount
    \/ FinishSeal

TrackerSpec == TrackerInit /\ [][TrackerNext]_vars

\* ---------------------------------------------------------- the fit scorer
\* Texts are sequences of characters.  Scores before rounding are exact
\* fractions <<numerator, denominator>>; score() returns ten-thousandths.
Lowers == {"a", "c", "d", "e", "g", "i", "l", "m", "n", "o", "p", "q", "r",
           "s", "t", "u", "v"}
Uppers == {"A", "C", "D", "E", "I", "L", "M", "O", "R", "U", "V"}

\* ch.isalnum()
IsAlnum(ch) == ch \in Lowers \cup Uppers

\* ch.lower()
LowerChar(ch) ==
    CASE ch = "A" -> "a" [] ch = "C" -> "c" [] ch = "D" -> "d"
      [] ch = "E" -> "e" [] ch = "I" -> "i" [] ch = "L" -> "l"
      [] ch = "M" -> "m" [] ch = "O" -> "o"
      [] ch = "R" -> "r" [] ch = "U" -> "u" [] ch = "V" -> "v"
      [] OTHER -> ch

\* str.lower()
LowerText(text) == [k \in 1 .. Len(text) |-> LowerChar(text[k])]

\* None passed where a string is expected: a value that is no string
NoText == <<"None">>

\* the words the texts are made of: upper case, a token of two characters,
\* a separator that is no blank
Words ==
    {<<"D", "a", "t", "a">>, <<"d", "a", "t", "a">>,
     <<"g", "o", "-", "s", "q", "l">>}

RECURSIVE JoinWords(_)
JoinWords(ws) ==
    IF Len(ws) = 1 THEN ws[1] ELSE ws[1] \o <<" ">> \o JoinWords(Tail(ws))

\* the values score() is called with for a text
Texts ==
    {NoText, <<>>, <<" ">>, <<"-">>}
        \cup {JoinWords(ws) : ws \in SeqUpTo(Words, MaxWords) \ {<<>>}}

\* settings.provider
Providers == {<<"O", "p", "e", "n", "A", "I">>, <<"n", "o", "o", "p">>, NoText}

\* settings.fallback_weight, in tenths: below 0, the default, above 1
Weights == {-5, 7, 15}

\* the embeddings the backend may answer with
Vectors == {<<1, 0>>, <<-3, 4>>, <<0, 0>>, <<1>>}

\* what embeddings.create does: it raises (a timeout, a refused key), or
\* answers with a list of at most two embeddings
Responses ==
    {[raises |-> TRUE, data |-> <<>>]}
        \cup {[raises |-> FALSE, data |-> d] : d \in SeqUpTo(Vectors, 2)}

\* text or ""
OrEmpty(text) == IF text = NoText THEN <<>> ELSE text

\* a check that takes only the empty string for blank
IsBlank_EmptyOnly(text) == text = <<>>

\* not text.strip()
IsBlank(text) == \A k \in 1 .. Len(text) : text[k] = " "

\* a filter that also keeps the tokens of two characters
KeepToken_Two(token) == Len(token) > 1

\* if len(token) > 2, scoring.py:27
KeepToken(token) == Len(token) > 2

\* cleaned.split() with the filter: the characters are read in order, a
\* blank ends the token being read
RECURSIVE SplitFrom(_, _, _)
SplitFrom(chars, token, tokens) ==
    LET closed == IF token # <<>> /\ KeepToken(token)
                  THEN Append(tokens, token) ELSE tokens
    IN  IF chars = <<>> THEN closed
        ELSE IF Head(chars) = " " THEN SplitFrom(Tail(chars), <<>>, closed)
        ELSE SplitFrom(Tail(chars), Append(token, Head(chars)), tokens)

\* _tokenize, scoring.py:25-27
tokenize(text) ==
    LET cleaned == [k \in 1 .. Len(text) |->
                      IF IsAlnum(text[k]) THEN LowerChar(text[k]) ELSE " "]
    IN  SplitFrom(cleaned, <<>>, <<>>)

\* Counter(tokens)
RECURSIVE TokenCounter(_, _)
TokenCounter(tokens, counts) ==
    IF tokens = <<>> THEN counts
    ELSE TokenCounter(Tail(tokens), CountOne(counts, Head(tokens)))

\* the difference of the two counts in place of the smaller one
PyMin_Difference(a, b) == IF a < b THEN b - a ELSE a - b

\* min(a, b)
PyMin(a, b) == IF a < b THEN a ELSE b

\* sum(min(resume_counter[token], job_counter[token]) for token in common)
RECURSIVE OverlapSum(_, _, _)
OverlapSum(common, resume_counter, job_counter) ==
    IF common = {} THEN 0
    ELSE LET token == CHOOSE x \in common : TRUE
         IN  PyMin(resume_counter[token], job_counter[token])
               + OverlapSum(common \ {token}, resume_counter, job_counter)

\* sum(job_counter.values())
RECURSIVE CounterTotal(_, _)
CounterTotal(counter, keys) ==
    IF keys = {} THEN 0
    ELSE LET token == CHOOSE x \in keys : TRUE
         IN  counter[token] + CounterTotal(counter, keys \ {token})

\* min(1.0, x) of a fraction
AtMostOne(x) == IF x[1] > x[2] THEN <<1, 1>> ELSE x

\* _keyword_overlap, scoring.py:93-106
keyword_overlap(resume_text, job_description) ==
    LET resume_tokens == tokenize(resume_text)
        job_tokens == tokenize(job_description)
        resume_counter == TokenCounter(resume_tokens, <<>>)
        job_counter == TokenCounter(job_tokens, <<>>)
        common == DOMAIN resume_counter \cap DOMAIN job_counter
        overlap_score == OverlapSum(common, resume_counter, job_counter)
        normalization == CounterTotal(job_counter, DOMAIN job_counter)
    IN  IF resume_tokens = <<>> \/ job_tokens = <<>> THEN <<0, 1>>
        ELSE IF normalization = 0 THEN <<0, 1>>
        ELSE AtMostOne(<<overlap_score, normalization>>)

\* an exception raised inside a try block
Exc == <<"exception">>

RECURSIVE DotFrom(_, _)
DotFrom(a, b) ==
    IF a = <<>> THEN 0 ELSE Head(a) * Head(b) + DotFrom(Tail(a), Tail(b))

\* math.sqrt of the sums of squares that occur (all of them squares)
Sqrt(n) == CHOOSE r \in 0 .. n : r * r = n

\* a similarity over zip(a, b) alone: the longer vector is cut to the
\* length of the shorter one
cosine_Zip(a, b) ==
    LET n == PyMin(Len(a), Len(b))
        x == SubSeq(a, 1, n)
        y == SubSeq(b, 1, n)
        norm_x == Sqrt(DotFrom(x, x))
        norm_y == Sqrt(DotFrom(y, y))
    IN  IF norm_x = 0 \/ norm_y = 0 THEN <<0, 1>>
        ELSE <<DotFrom(x, y), norm_x * norm_y>>

\* _cosine, scoring.py:14-22
cosine(a, b) ==
    IF Len(a) # Len(b) THEN Exc
    ELSE LET dot == DotFrom(a, b)
             norm_a == Sqrt(DotFrom(a, a))
             norm_b == Sqrt(DotFrom(b, b))
         IN  IF norm_a = 0 \/ norm_b = 0 THEN <<0, 1>>
             ELSE <<dot, norm_a * norm_b>>

\* an except clause that lets the exception through
Guarded_Reraise(outcome) == outcome

\* except Exception: ... return None, scoring.py:89-91
Guarded(outcome) == IF outcome = Exc THEN None ELSE outcome

\* _embedding_similarity, scoring.py:81-91: vectors[0] and vectors[1] of a
\* shorter answer raise IndexError
embedding_similarity(response) ==
    Guarded(IF response.raises THEN Exc
            ELSE IF Len(response.data) < 2 THEN Exc
            ELSE cosine(response.data[1], response.data[2]))

\* _build_client, scoring.py:65-79: is there a client
build_client(provider, has_key, importable) ==
    IF LowerText(OrEmpty(provider)) # <<"o", "p", "e", "n", "a", "i">> THEN FALSE
    ELSE IF ~has_key THEN FALSE
    ELSE importable

\* a weight used as configured
ClampWeight_None(w) == w

\* max(0.0, min(1.0, fallback_weight)), in tenths
ClampWeight(w) == IF w < 0 THEN 0 ELSE IF w > 10 THEN 10 ELSE w

\* embedding_score * (1 - weight) + keyword_score * weight
Blend(e, k, w) == <<e[1] * (10 - w) * k[2] + k[1] * w * e[2], 10 * e[2] * k[2]>>

\* round(x, 4) in ten-thousandths: the nearest one, the even one of two
\* equally near
Round4(x) ==
    LET scaled == 10000 * x[1]
        low == scaled \div x[2]
        rest == scaled - low * x[2]
    IN  IF 2 * rest < x[2] THEN low
        ELSE IF 2 * rest > x[2] THEN low + 1
        ELSE IF low % 2 = 0 THEN low ELSE low + 1

\* score() raised
Raised == <<0, 0>>

\* is the backend asked for embeddings: scoring.py:44-49
Consults(inp) ==
    /\ ~IsBlank(OrEmpty(inp.resume))
    /\ ~IsBlank(OrEmpty(inp.job))
    /\ inp.client

\* JobFitScorer.score, scoring.py:41-59
score(inp) ==
    LET resume_text == OrEmpty(inp.resume)
        job_description == OrEmpty(inp.job)
    IN  IF IsBlank(resume_text) \/ IsBlank(job_description) THEN Some(0)
        ELSE LET embedding_score ==
                     IF inp.client THEN embedding_similarity(inp.response)
                     ELSE None
                 keyword_score == keyword_overlap(resume_text, job_description)
             IN  IF embedding_score = Exc THEN Raised
                 ELSE IF embedding_score # None
                 THEN Some(Round4(Blend(embedding_score, keyword_score,
                                        ClampWeight(inp.weight))))
                 ELSE Some(Round4(keyword_score))

\* scorer = JobFitScorer(config); the backend's answer matters only when
\* there is a client to ask
ScorerInput(resume, job, provider, has_key, importable, response, weight) ==
    [resume |-> resume, job |-> job, provider |-> provider,
     has_key |-> has_key, importable |-> importable,
     client |-> build_client(provider, has_key, importable),
     response |-> response, weight |-> weight]

\* scorer.score(resume_text, job_description)
ScorerCall ==
    /\ sout = None
    /\ sout' = score(sin)
    /\ asked' = Consults(sin)
    /\ UNCHANGED <<sin, supVars, cliVars, polVars, thrVars, board, eventLog,
                   dbRuns, dbApps, mrgVars, trkVars, cmpVars>>

ScoreInit ==
    /\ ComponentsIdle
    /\ \E resume \in Texts, job \in Texts, provider \in Providers,
          has_key \in BOOLEAN, importable \in BOOLEAN,
          response \in Responses, weight \in Weights :
          /\ build_client(provider, has_key, importable) \/ response.raises
          /\ sin = ScorerInput(resume, job, provider, has_key, importable,
                               response, weight)
    /\ sout = None
    /\ asked = FALSE
    /\ TrackerIdle
    /\ board = <<>>
    /\ lock = Free
    /\ active = FALSE
    /\ latest = NoRecord
    /\ cpc = [c \in Clients |-> "idle"]
    /\ ppc = "idle"
    /\ view = NoView
    /\ calls = 0
    /\ inBatch = [c \in Clients |-> FALSE]
    /\ batchAcc = 0
    /\ nthreads = 0
    /\ thr = [r \in Runs |-> NoThread]
    /\ eventLog = <<>>
    /\ dbRuns = {}
    /\ dbApps = <<>>
    /\ scraped = <<>>
    /\ merged = None

ScoreNext == ScorerCall

ScoreSpec == ScoreInit /\ [][ScoreNext]_vars

\* ------------------------------------------------- the RemoteOK scraper
\* everything outside the components that are driven on their own is at rest
QuietSystem ==
    /\ TrackerIdle
    /\ ScorerIdle
    /\ board = <<>>
    /\ lock = Free
    /\ active = FALSE
    /\ latest = NoRecord
    /\ cpc = [c \in Clients |-> "idle"]
    /\ ppc = "idle"
    /\ view = NoView
    /\ calls = 0
    /\ inBatch = [c \in Clients |-> FALSE]
    /\ batchAcc = 0
    /\ nthreads = 0
    /\ thr = [r \in Runs |-> NoThread]
    /\ eventLog = <<>>
    /\ dbRuns = {}
    /\ dbApps = <<>>
    /\ scraped = <<>>
    /\ merged = None

\* needle in hay, for strings
Contains(needle, hay) ==
    \E k \in 0 .. Len(hay) - Len(needle) :
        SubSeq(hay, k + 1, k + Len(needle)) = needle

\* a match that looks at the title only
matches_keyword_TitleOnly(title, description, tags, keyword) ==
    Contains(LowerText(keyword), LowerText(title))

\* _matches_keyword, remoteok.py:86-92
matches_keyword(title, description, tags, keyword) ==
    LET keyword_lower == LowerText(keyword)
    IN  \/ Contains(keyword_lower, LowerText(title))
        \/ Contains(keyword_lower, LowerText(description))
        \/ \E k \in 1 .. Len(tags) :
              Contains(keyword_lower, LowerText(OrEmpty(tags[k])))

Digits == {"0", "1", "2", "9"}
DigitValue(ch) ==
    CASE ch = "0" -> 0 [] ch = "1" -> 1 [] ch = "2" -> 2 [] ch = "9" -> 9

\* int(match.replace(",", "")) of a match, read from the left
RECURSIVE AmountFrom(_, _)
AmountFrom(chars, n) ==
    IF chars = <<>> THEN n
    ELSE IF Head(chars) = "," THEN AmountFrom(Tail(chars), n)
    ELSE AmountFrom(Tail(chars), 10 * n + DigitValue(Head(chars)))

\* SALARY_PATTERN.findall(raw), remoteok.py:95: a match starts at a digit
\* and runs on over digits and commas
RECURSIVE FindAmounts(_, _, _)
FindAmounts(chars, match, amounts) ==
    LET closed == IF match = <<>> THEN amounts
                  ELSE Append(amounts, AmountFrom(match, 0))
    IN  IF chars = <<>> THEN closed
        ELSE IF Head(chars) \in Digits
             THEN FindAmounts(Tail(chars), Append(match, Head(chars)), amounts)
        ELSE IF Head(chars) = "," /\ match # <<>>
             THEN FindAmounts(Tail(chars), Append(match, ","), amounts)
        ELSE FindAmounts(Tail(chars), <<>>, closed)

RECURSIVE SmallestOf(_)
SmallestOf(amounts) ==
    IF Len(amounts) = 1 THEN amounts[1]
    ELSE PyMin(Head(amounts), SmallestOf(Tail(amounts)))

RECURSIVE LargestOf(_)
LargestOf(amounts) ==
    IF Len(amounts) = 1 THEN amounts[1]
    ELSE LET rest == LargestOf(Tail(amounts))
         IN  IF Head(amounts) > rest THEN Head(amounts) ELSE rest

\* _parse_salary, remoteok.py:98-114: None, or Some(SalaryRange)
parse_salary(raw) ==
    IF OrEmpty(raw) = <<>> THEN None
    ELSE LET amounts == FindAmounts(raw, <<>>, <<>>)
         IN  IF amounts = <<>> THEN None
             ELSE Some([minimum |-> Some(SmallestOf(amounts)),
                        maximum |-> IF Len(amounts) > 1
                                    THEN Some(LargestOf(amounts)) ELSE None])

\* str.strip()
RECURSIVE Strip(_)
Strip(text) ==
    IF text = <<>> THEN text
    ELSE IF Head(text) = " " THEN Strip(Tail(text))
    ELSE IF text[Len(text)] = " " THEN Strip(SubSeq(text, 1, Len(text) - 1))
    ELSE text

\* the end of the tag that opens at the head of chars, 0 if none does:
\* "<", one or more characters other than ">", then ">"
TagEnd(chars) ==
    IF chars = <<>> \/ Head(chars) # "<" THEN 0
    ELSE LET closers == {k \in 3 .. Len(chars) :
                           chars[k] = ">" /\ \A j \in 2 .. k - 1 : chars[j] # ">"}
         IN  IF closers = {} THEN 0 ELSE CHOOSE k \in closers : TRUE

\* _strip_html, remoteok.py:117-118
RECURSIVE strip_html(_)
strip_html(chars) ==
    IF chars = <<>> THEN chars
    ELSE IF TagEnd(chars) > 0
         THEN strip_html(SubSeq(chars, TagEnd(chars) + 1, Len(chars)))
    ELSE <<Head(chars)>> \o strip_html(Tail(chars))

RemoteText == <<"R", "e", "m", "o", "t", "e">>

\* job.get("location") or "Remote", remoteok.py:64
LocationOf(job) == IF OrEmpty(job.location) = <<>> THEN RemoteText ELSE job.location

\* if keywords and not any(...): continue, remoteok.py:61-62
PassesKeywords(job, keywords) ==
    \/ keywords = <<>>
    \/ \E k \in 1 .. Len(keywords) :
          matches_keyword(OrEmpty(job.position), OrEmpty(job.description),
                          job.tags, keywords[k])

\* if locations and location.lower() not in locations and "remote" not in
\* location.lower(): continue, remoteok.py:64-66
PassesLocation(job, locations) ==
    \/ locations = <<>>
    \/ \E k \in 1 .. Len(locations) : LowerText(LocationOf(job)) = locations[k]
    \/ Contains(LowerText(RemoteText), LowerText(LocationOf(job)))

\* if min_comp and (not salary or (salary.minimum or 0) < min_comp):
\* continue, remoteok.py:68-70, with min_comp = query.min_compensation or 0
PassesSalary(job, min_compensation) ==
    LET min_comp == IF min_compensation = None THEN 0 ELSE min_compensation[1]
        salary == parse_salary(job.salary)
    IN  \/ min_comp = 0
        \/ salary # None /\ salary[1].minimum[1] >= min_comp

\* JobPosting(...), remoteok.py:72-82
PostingOf(job) ==
    [title |-> Strip(OrEmpty(job.position)),
     location |-> Strip(LocationOf(job)),
     description |-> strip_html(OrEmpty(job.description)),
     url |-> job.url, source |-> "RemoteOK",
     salary |-> parse_salary(job.salary)]

\* _filter_jobs, remoteok.py:50-84
RECURSIVE FilterFrom(_, _, _)
FilterFrom(jobs, query, filtered) ==
    IF jobs = <<>> THEN filtered
    ELSE LET job == Head(jobs)
             keywords == [k \in 1 .. Len(query.keywords) |->
                            LowerText(query.keywords[k])]
             locations == [k \in 1 .. Len(query.locations) |->
                             LowerText(query.locations[k])]
         IN  IF /\ PassesKeywords(job, keywords)
                /\ PassesLocation(job, locations)
                /\ PassesSalary(job, query.min_compensation)
             THEN FilterFrom(Tail(jobs), query, Append(filtered, PostingOf(job)))
             ELSE FilterFrom(Tail(jobs), query, filtered)

filter_jobs(jobs, query) == FilterFrom(jobs, query, <<>>)

\* search_jobs, remoteok.py:29-38: any failure of the request becomes a
\* ScrapingError
search_jobs(inp) ==
    IF inp.fetch_fails THEN [raised |-> TRUE, jobs |-> <<>>]
    ELSE [raised |-> FALSE,
          jobs |-> PySlice(filter_jobs(inp.fetched, inp.query), inp.max_results)]

\* the entries of RemoteOK's answer: where the keyword is found, where the
\* job is, what it pays
RawJob(url, where, location, salary) ==
    [url |-> url,
     position |-> IF where = "title" THEN <<" ", "D", "e", "v">> ELSE NoText,
     description |-> IF where = "description"
                     THEN <<"<", "p", ">", "d", "e", "v", "<", "/", "p", ">">>
                     ELSE NoText,
     tags |-> IF where = "tags" THEN <<NoText, <<"D", "E", "V">>>> ELSE <<>>,
     location |-> location, salary |-> salary]

JobLocations ==
    {NoText, <<"R", "O", "M", "E">>, <<"O", "s", "l", "o">>,
     <<"r", "e", "m", "o", "t", "e", " ", "E", "U">>}

SalaryTexts ==
    {NoText, <<"n", "/", "a">>, <<"9", "-", "1", "2">>,
     <<"$", "1", ",", "2", "0", "0">>}

\* every kind of entry, for an answer of one entry
AllRawJobs ==
    {RawJob(1, where, location, salary) :
        where \in {"none", "title", "description", "tags"},
        location \in JobLocations, salary \in SalaryTexts}

\* the entries of the longer answers: one that meets every criterion, one
\* without the keyword, one at the wrong place with too low a salary
SampleKinds == {"match", "other", "far"}
SampleJob(url, kind) ==
    CASE kind = "match" ->
           RawJob(url, "title", NoText, <<"$", "1", ",", "2", "0", "0">>)
      [] kind = "other" ->
           RawJob(url, "none", NoText, <<"$", "1", ",", "2", "0", "0">>)
      [] kind = "far" ->
           RawJob(url, "tags", <<"O", "s", "l", "o">>, <<"9", "-", "1", "2">>)

\* the answers of RemoteOK: one entry of any kind, or up to MaxFetched
\* sample entries
FetchedLists ==
    {<<j>> : j \in AllRawJobs}
        \cup UNION {{[k \in 1 .. n |-> SampleJob(k, kinds[k])] :
                        kinds \in [1 .. n -> SampleKinds]} : n \in 0 .. MaxFetched}

\* the queries of a run
Queries ==
    {[keywords |-> kw, locations |-> loc, min_compensation |-> mc] :
        kw \in {<<>>, <<<<"D", "e", "v">>>>,
                <<<<"o", "p", "s">>, <<"d", "E", "V">>>>},
        loc \in {<<>>, <<<<"R", "o", "m", "e">>>>},
        mc \in {None, Some(0), Some(10), Some(1200)}}

\* RemoteOKScraper(max_results=...): the command line's least value, a
\* value inside the longer answers, the default
ResultCaps == {1, 2, 50}

\* scraper.search_jobs(query)
SearchJobs ==
    /\ rok.out = None
    /\ rok' = [rok EXCEPT !.out = Some(search_jobs(rok.inp))]
    /\ UNCHANGED <<supVars, cliVars, polVars, thrVars, board, eventLog,
                   dbRuns, dbApps, mrgVars, trkVars, scoVars, bot, tlr, rdr>>

RokInit ==
    /\ QuietSystem
    /\ bot = None /\ tlr = None /\ rdr = None
    /\ \E fetched \in FetchedLists, query \in Queries,
          max_results \in ResultCaps, fetch_fails \in BOOLEAN :
          /\ fetch_fails => fetched = <<>>
          /\ rok = [inp |-> [fetched |-> fetched, query |-> query,
                             max_results |-> max_results,
                             fetch_fails |-> fetch_fails],
                    out |-> None]

RokNext == SearchJobs

RokSpec == RokInit /\ [][RokNext]_vars

\* --------------------------------------------------------- the Lever bot
\* the host name can_handle looks for
LeverHost == <<"l", "e", "v", "e", "r", ".", "c", "o">>

\* LeverApplicationBot.can_handle(job): "lever.co" in (job.url or "").lower()
can_handle(url) == Contains(LeverHost, LowerText(OrEmpty(url)))

\* a decision that takes the button for found whenever auto_submit is on
StatusOf_IgnoresButton(auto_submit, has_submit) ==
    IF auto_submit THEN "submitted" ELSE "ready-for-review"

\* the status the end of the form takes
StatusOf(auto_submit, has_submit) ==
    IF auto_submit
    THEN IF has_submit THEN "submitted" ELSE "review-required"
    ELSE "ready-for-review"

\* what the end of the form does with the submit button
SubmitSteps(auto_submit, has_submit) ==
    IF auto_submit
    THEN IF has_submit THEN <<"locate", "click", "wait">> ELSE <<"locate">>
    ELSE <<>>

\* the browser steps of one call, in order: the browser is started, the
\* posting opened, the form filled, the button handled, the browser closed
BrowserPlan(auto_submit, has_submit) ==
    <<"launch", "goto", "fill">> \o SubmitSteps(auto_submit, has_submit)
        \o <<"close">>

\* where a step stands in a plan, 0 when the plan does not hold it
Position(step, plan) ==
    IF \E k \in 1 .. Len(plan) : plan[k] = step
    THEN CHOOSE k \in 1 .. Len(plan) : plan[k] = step
    ELSE 0

\* the call refused or broken: the exception, and the browser steps done
BotRaises(kind, done) == [raised |-> Some(kind), status |-> None, done |-> done]

\* bot.submit(profile, job, resume), where the step inp.fault raises when
\* the call gets to it
submit(inp) ==
    IF ~can_handle(inp.url)
    THEN BotRaises("ApplicationError", <<>>)
    ELSE IF ~inp.playwright
    THEN BotRaises("ApplicationError", <<>>)
    ELSE IF inp.fault = "tempfile"
    THEN BotRaises("OSError", <<>>)
    ELSE LET plan == BrowserPlan(inp.auto_submit, inp.has_submit)
             at == Position(inp.fault, plan)
         IN  IF at > 0
             THEN BotRaises("ApplicationError", SubSeq(plan, 1, at - 1))
             ELSE [raised |-> None,
                   status |-> Some(StatusOf(inp.auto_submit, inp.has_submit)),
                   done |-> plan]

\* job.url: Lever postings in both cases, another board, no url
JobUrls ==
    {LeverHost, <<"L", "E", "V", "E", "R", ".", "C", "O">>,
     <<"l", "e", "v", "e", "r", ".", "i", "o">>, <<>>, NoText}

\* the step of a call that raises, if any
BotFaults ==
    {"none", "tempfile", "launch", "goto", "fill", "locate", "click", "wait",
     "close"}

\* bot.submit(...) called
SubmitApplication ==
    /\ bot # None
    /\ bot.out = None
    /\ bot' = [bot EXCEPT !.out = Some(submit(bot.inp))]
    /\ UNCHANGED <<supVars, cliVars, polVars, thrVars, board, eventLog,
                   dbRuns, dbApps, mrgVars, trkVars, scoVars, rok, tlr, rdr>>

BotInit ==
    /\ QuietSystem
    /\ rok = None /\ tlr = None /\ rdr = None
    /\ \E url \in JobUrls, playwright \in BOOLEAN, auto_submit \in BOOLEAN,
          has_submit \in BOOLEAN, fault \in BotFaults :
          bot = [inp |-> [url |-> url, playwright |-> playwright,
                          auto_submit |-> auto_submit,
                          has_submit |-> has_submit, fault |-> fault],
                 out |-> None]

BotNext == SubmitApplication

BotSpec == BotInit /\ [][BotNext]_vars

\* ---------------------------------------------------- the resume tailor
\* LLMClient._build_client(provider): a client for "openai", in any letter
\* case, when the key is set and the package imports; None otherwise
LLMClient_build_client(provider, api_key, importable) ==
    IF LowerText(provider) = <<"o", "p", "e", "n", "a", "i">>
          /\ api_key /\ importable
    THEN Some(provider)
    ELSE None

\* LLMClient.available
available(client) == client # None

\* the first text of a message that is not empty, if any
FirstText(messages) ==
    LET full == {k \in 1 .. Len(messages) : messages[k] # <<>>}
    IN  IF full = {} THEN None
        ELSE Some(messages[CHOOSE k \in full : \A j \in full : k <= j])

\* LLMClient._generate_openai(prompt): the answer's output_text, or the first
\* text of its messages, stripped; an exception when the call raises or the
\* answer has neither
generate_openai(response) ==
    IF response.fails THEN Exc
    ELSE IF OrEmpty(response.output_text) # <<>>
    THEN Some(Strip(response.output_text))
    ELSE IF FirstText(response.messages) # None
    THEN Some(Strip(FirstText(response.messages)[1]))
    ELSE Exc

\* LLMClient.generate(prompt)
generate(client, response) ==
    IF client = None THEN Exc
    ELSE IF LowerText(client[1]) = <<"o", "p", "e", "n", "a", "i">>
    THEN generate_openai(response)
    ELSE Exc

\* build_prompt(profile, job): job.description.split() needs a string
build_prompt(base, description) ==
    IF description = NoText THEN Exc ELSE Some(<<description, base>>)

\* the call of tailor() ended: the exception or the document's text, what
\* generate() returned, and whether it was called
Tailored(raised, text, generated, called) ==
    [raised |-> raised, text |-> text, generated |-> generated,
     asked |-> called]

\* a tailor that asks the client whether or not it is available
UseClient_Always(client) == TRUE

\* if self._llm_client.available
UseClient(client) == available(client)

\* tailor.tailor(profile, job)
tailor(inp) ==
    LET client == LLMClient_build_client(inp.provider, inp.api_key,
                                         inp.importable)
        prompt == build_prompt(inp.base, inp.description)
    IN  IF prompt = Exc
        THEN Tailored(Some("TailoringError"), None, None, FALSE)
        ELSE IF UseClient(client)
        THEN LET answer == generate(client, inp.response)
             IN  IF answer = Exc
                 THEN Tailored(Some("TailoringError"), None, None, TRUE)
                 ELSE Tailored(None, answer, answer, TRUE)
        ELSE Tailored(None, Some(inp.base), None, FALSE)

\* config.llm.provider
LLMProviders ==
    {<<"o", "p", "e", "n", "a", "i">>, <<"O", "p", "e", "n", "A", "I">>,
     <<"n", "o", "o", "p">>}

\* profile.base_resume.content
BaseResumes == {<<"c", "v">>, <<>>}

\* job.description
Descriptions == {<<"d", "e", "v">>, NoText}

\* what the provider answers: text at the top, text in a later message
\* only, blank text, nothing, or a failed call
LLMResponses ==
    {[fails |-> FALSE, output_text |-> <<"a", " ">>, messages |-> <<>>],
     [fails |-> FALSE, output_text |-> <<>>,
      messages |-> <<<<>>, <<" ", "e">>>>],
     [fails |-> FALSE, output_text |-> NoText, messages |-> <<<<"c", "v">>>>],
     [fails |-> FALSE, output_text |-> <<" ">>, messages |-> <<>>],
     [fails |-> FALSE, output_text |-> NoText, messages |-> <<>>],
     [fails |-> TRUE, output_text |-> NoText, messages |-> <<>>]}

\* tailor.tailor(...) called
TailorCall ==
    /\ tlr # None
    /\ tlr.out = None
    /\ tlr' = [tlr EXCEPT !.out = Some(tailor(tlr.inp))]
    /\ UNCHANGED <<supVars, cliVars, polVars, thrVars, board, eventLog,
                   dbRuns, dbApps, mrgVars, trkVars, scoVars, rok, bot, rdr>>

TailorInit ==
    /\ QuietSystem
    /\ rok = None /\ bot = None /\ rdr = None
    /\ \E provider \in LLMProviders, api_key \in BOOLEAN,
          importable \in BOOLEAN, base \in BaseResumes,
          description \in Descriptions, response \in LLMResponses :
          tlr = [inp |-> [provider |-> provider, api_key |-> api_key,
                          importable |-> importable, base |-> base,
                          description |-> description, response |-> response],
                 out |-> None]

TailorNext == TailorCall

TailorSpec == TailorInit /\ [][TailorNext]_vars

\* ------------------------------------------------- the reader of the log
\* str.strip() of a line read from a file: blanks and the line end
RECURSIVE StripLine(_)
StripLine(text) ==
    IF text = <<>> THEN text
    ELSE IF Head(text) \in {" ", "\n"} THEN StripLine(Tail(text))
    ELSE IF text[Len(text)] \in {" ", "\n"}
    THEN StripLine(SubSeq(text, 1, Len(text) - 1))
    ELSE text

\* json.loads(entry) for the lines of this model, which write a run's
\* record as its id in braces: the record, or JSONDecodeError raised
json_loads(entry) ==
    IF Len(entry) = 3 /\ entry[1] = "{" /\ entry[3] = "}" /\ entry[2] \in Digits
    THEN [raised |-> FALSE, value |-> [run_id |-> DigitValue(entry[2])]]
    ELSE [raised |-> TRUE, value |-> [run_id |-> 0]]

\* a buffer that stops taking lines once it is full
Buffered_First(lines, limit) ==
    SubSeq(lines, 1, IF limit < Len(lines) THEN limit ELSE Len(lines))

\* deque(maxlen=limit) after every line was appended: the last limit lines
Buffered(lines, limit) ==
    SubSeq(lines, IF limit < Len(lines) THEN Len(lines) - limit + 1 ELSE 1,
           Len(lines))

\* the entry is skipped: it is empty or json.loads raises
Skipped(entry) == entry = <<>> \/ json_loads(entry).raised

\* load_recent_runs(limit, storage_path), where file is None when the path
\* does not exist
load_recent_runs(file, limit) ==
    IF file = None THEN <<>>
    ELSE LET stripped == [k \in 1 .. Len(file[1]) |-> StripLine(file[1][k])]
             buffer == Buffered(stripped, limit)
             Parses(entry) == ~Skipped(entry)
             kept == SelectSeq(buffer, Parses)
         IN  [k \in 1 .. Len(kept) |-> json_loads(kept[k]).value]

\* lines a log can hold: two records, the second written with blanks
\* around it, two blank lines, a record cut short
LogLines ==
    {<<"{", "1", "}", "\n">>, <<" ", "{", "2", "}", " ", "\n">>,
     <<"\n">>, <<" ", "\n">>, <<"{", "3", "\n">>}

\* the logs of at most MaxLines lines
LogFiles ==
    UNION {[1 .. n -> LogLines] : n \in 0 .. MaxLines}

\* the limits the callers pass: the command line's least value, a value
\* inside the longer logs, the default
ReadLimits == {1, 2, 5}

\* load_recent_runs(limit) called
LoadRecentRuns ==
    /\ rdr # None
    /\ rdr.out = None
    /\ rdr' = [rdr EXCEPT !.out = Some(load_recent_runs(rdr.file, rdr.inp.limit))]
    /\ UNCHANGED <<supVars, cliVars, polVars, thrVars, board, eventLog,
                   dbRuns, dbApps, mrgVars, trkVars, scoVars, rok, bot, tlr>>

ReaderInit ==
    /\ QuietSystem
    /\ rok = None /\ bot = None /\ tlr = None
    /\ \E exists \in BOOLEAN, lines \in LogFiles, limit \in ReadLimits :
          /\ ~exists => lines = <<>>
          /\ LET file == IF exists THEN Some(lines) ELSE None
             IN  rdr = [inp |-> [file |-> file, limit |-> limit],
                        file |-> file, out |-> None]

ReaderNext == LoadRecentRuns

ReaderSpec == ReaderInit /\ [][ReaderNext]_vars

\* One pipeline run on its own: the thread of an accepted start() has just
\* been created and no further request arrives.
PipeInit ==
    /\ ComponentsIdle
    /\ ScorerIdle
    /\ TrackerIdle
    /\ board \in {Board(n) : n \in 0 .. MaxJobs}
    /\ lock = Free
    /\ active = TRUE
    /\ latest = RunRecord("running", 0, None, <<>>)
    /\ cpc = [c \in Clients |-> "idle"]
    /\ ppc = "idle"
    /\ view = NoView
    /\ calls = 1
    /\ inBatch = [c \in Clients |-> FALSE]
    /\ batchAcc = 0
    /\ nthreads = 1
    /\ thr = [r \in Runs |-> IF r = 1 THEN [NoThread EXCEPT !.pc = "setup"]
                                       ELSE NoThread]
    /\ eventLog = <<>>
    /\ dbRuns = {}
    /\ dbApps = <<>>
    /\ scraped = <<>>
    /\ merged = None

PipeNext ==
    \/ \E r \in Runs : PipelineStep(r)
    \/ \E r \in Runs : WrapperStep(r)

PipeSpec == PipeInit /\ [][PipeNext]_vars

\* Scheduling: some request handler inside start(), the handler inside
\* status() and some runner thread keep running (weak fairness); a runner
\* thread blocked on the lock gets it if the lock is released again and
\* again (strong fairness).  New requests (StartCall, StatusAcquire) are
\* never forced.
ClientProgress(c) ==
    \/ StartAcquire(c)
    \/ StartCheck(c)
    \/ StartSpawn(c)
    \/ StartRaise(c)

ThreadProgress(r) ==
    \/ PipelineStep(r)
    \/ RecordLatest(r)
    \/ ClearActive(r)

ThreadAcquire(r) ==
    \/ RecordAcquire(r)
    \/ ClearAcquire(r)

Fairness ==
    /\ WF_vars(\E c \in Clients : ClientProgress(c))
    /\ WF_vars(StatusRead \/ StatusReturn)
    /\ WF_vars(\E r \in Runs : ThreadProgress(r))
    /\ SF_vars(\E r \in Runs : ThreadAcquire(r))

LiveSpec == Spec /\ Fairness

\* ------------------------------------------------------------------ claims
Terminal == {"completed", "failed"}

\* runner threads inside _execute_run, and accepted calls about to start one
Executing == {r \in Runs : thr[r].pc \notin {"unborn", "done"}}
Spawning == {c \in Clients : cpc[c] = "start_spawn"}

\* a step in which client c leaves the with-block of start()
Decided(c) == cpc[c] = "start_cs" /\ cpc'[c] # "start_cs"

\* C1 as stated: at most one execution is active, and of the concurrent
\* start() calls issued while no run is active exactly one is accepted.
C1_ExactlyOneAccepted ==
    /\ Cardinality(Executing) <= 1
    /\ (Batch # {} /\ Batch \cap Undecided = {}) => batchAcc = 1

\* C1 amended: in every state at most one execution is in flight, and it is
\* in flight exactly while the active flag is set; a start() whose check runs
\* while the flag is set is rejected and one whose check runs while it is
\* clear is accepted.  A second concurrent call is therefore accepted when
\* the first call's run has already cleared the flag.
C1_SingleFlight ==
    /\ [](Cardinality(Executing) + Cardinality(Spawning) = IF active THEN 1 ELSE 0)
    /\ [][\A c \in Clients : Decided(c) =>
            IF active
            THEN cpc'[c] = "start_raise" /\ active'
            ELSE cpc'[c] = "start_spawn" /\ active']_vars

\* two concurrent calls issued while idle: one accepted, the other rejected
C1_Witness ==
    \E c, d \in Batch :
        /\ cpc[c] = "start_spawn"
        /\ cpc[d] = "start_raise"
        /\ batchAcc = 1

\* C2: after an accepted start() the active flag is eventually cleared,
\* however the run ends.
C2_FlagEventuallyCleared == active ~> ~active

\* a run that raised has ended and the flag is clear
C2_Witness ==
    /\ ~active
    /\ latest.status = "failed"
    /\ \E r \in Runs : thr[r].pc = "done"

\* C3: while a run is active status() reports the terminal record of the
\* most recently completed run; accepting a start() does not replace it.
\* (A status "running" is no terminal record.)
C3_PreviousRecordKept ==
    /\ []((ppc = "status_ret" /\ view.running /\ \E r \in Runs : thr[r].pc = "done")
            => view.latest.status \in Terminal)
    /\ [][\A c \in Clients :
            (Decided(c) /\ cpc'[c] = "start_spawn" /\ latest.status \in Terminal)
                => latest' = latest]_vars

\* C4: no status() call observes the terminal record of a run while running
\* is still reported true.  (start() stores a "running" record, so a
\* terminal record seen while the flag is set is that of the finishing run.)
C4_ConsistentSnapshot ==
    ppc = "status_ret" => ~(view.running /\ view.latest.status \in Terminal)

\* C5: a start() that is rejected changes neither the active flag nor the
\* latest record and creates no thread (and so no pipeline and no journal).
C5_RejectedStartIsNoOp ==
    [][\A c \in Clients :
        (Decided(c) /\ cpc'[c] = "start_raise") \/ (cpc[c] = "start_raise" /\ cpc'[c] = "idle")
            => UNCHANGED <<active, latest, nthreads, thr, eventLog, dbRuns>>]_vars

\* a call was rejected while a run was in flight
C5_Witness ==
    \E c \in Clients : cpc[c] = "start_raise" /\ active

\* C6: the record stored when a run ends is "completed" with the number of
\* outcomes when run() returned, "failed" with the error's message when it
\* raised an AgenticJobHunterError, "failed" with "Unexpected error: ..." for
\* any other exception; no other status is ever stored.
C6_TerminalClassification ==
    /\ latest.status \in {"none", "running", "completed", "failed"}
    /\ \A r \in Runs :
         thr[r].pc \in {"clr_wait", "clr_cs"} =>
            /\ thr[r].exc = "none" =>
                 /\ latest.status = "completed"
                 /\ latest.total_applications = Len(thr[r].out)
                 /\ latest.notes = None
            /\ thr[r].exc = "own" =>
                 /\ latest.status = "failed"
                 /\ latest.notes = Some(thr[r].msg)
                 /\ thr[r].msg \in {ProfileMsg, ScrapeMsg}
            /\ thr[r].exc = "other" =>
                 /\ latest.status = "failed"
                 /\ latest.notes = Some("Unexpected error: " \o thr[r].msg)

\* a run whose discovery raised ScrapingError has stored its record
C6_Witness ==
    \E r \in Runs :
        /\ thr[r].pc = "clr_wait"
        /\ thr[r].exc = "own"
        /\ latest = RunRecord("failed", 0, Some(ScrapeMsg), <<>>)

\* the stage failures of a run so far
Failures(t) == {e \in t.ev : e[1] \notin {"tailor_ok", "score_ok", "submit_ok"}}

\* the candidates of a sequence of result or error records
JobsOf(records) == [k \in 1 .. Len(records) |-> records[k].job]

\* the sequence s without its k-th entry
Without(s, k) == [n \in 1 .. Len(s) - 1 |-> IF n < k THEN s[n] ELSE s[n + 1]]

\* C7: when exactly one candidate k fails at tailoring and every other stage
\* succeeds, the loop ends normally with N-1 outcomes, those of the other
\* candidates in order, and exactly one error, which refers to candidate k.
C7_PartialFailureIsolation ==
    \A r \in Runs :
      LET t == thr[r] IN
        t.pc = "finish" =>
          \A k \in 1 .. Len(t.jobs) :
            Failures(t) \in {{<<"tailor_err", t.jobs[k]>>}, {<<"tailor_unexp", t.jobs[k]>>}}
              => /\ t.exc = "none"
                 /\ Len(t.results) = Len(t.jobs) - 1
                 /\ JobsOf(t.results) = Without(t.jobs, k)
                 /\ JobsOf(t.errors) = <<t.jobs[k]>>
                 /\ \A n \in k + 1 .. Len(t.jobs) : <<"submit_ok", t.jobs[n]>> \in t.ev

\* three candidates, the second failed at tailoring, the loop has ended
C7_Witness ==
    \E r \in Runs :
        /\ thr[r].pc = "finish"
        /\ Len(thr[r].jobs) = 3
        /\ Failures(thr[r]) = {<<"tailor_err", 2>>}
        /\ Len(thr[r].results) = 2

\* C8: an unclassified fault at any per-candidate stage is recorded as an
\* Error for that candidate and does not abort the run.
C8_UnexpectedFaultContained ==
    \A r \in Runs :
      \A e \in thr[r].ev :
        e[1] \in {"tailor_unexp", "score_unexp", "submit_unexp"} =>
            /\ thr[r].exc = "none"
            /\ \E k \in 1 .. Len(thr[r].errors) : thr[r].errors[k].job = e[2]

\* C9: a failure of the scoring step counts as a null score; submission is
\* still attempted for that candidate.
C9_ScoreFailureIsNullScore ==
    \A r \in Runs :
      \A e \in thr[r].ev :
        e[1] = "score_unexp" =>
            \/ thr[r].pc = "submit" /\ Job(r) = e[2] /\ thr[r].fit = None
            \/ \E st \in {"submit_ok", "submit_err", "submit_unexp"} : <<st, e[2]>> \in thr[r].ev

\* C10: scoring and submission happen for a candidate only after tailor()
\* returned a document for that candidate in this run, never after a
\* tailoring failure; submit() is handed that candidate's document.
C10_SubmitOnlyAfterTailor ==
    \A r \in Runs :
      LET t == thr[r] IN
        /\ \A e \in t.ev :
             e[1] \in {"score_ok", "score_unexp", "submit_ok", "submit_err", "submit_unexp"} =>
                /\ <<"tailor_ok", e[2]>> \in t.ev
                /\ <<"tailor_err", e[2]>> \notin t.ev
                /\ <<"tailor_unexp", e[2]>> \notin t.ev
        /\ t.pc \in {"score", "submit"} =>
                t.tailored = t.jobs[t.i] /\ <<"tailor_ok", t.jobs[t.i]>> \in t.ev

\* the first candidate failed at tailoring, the second was submitted
C10_Witness ==
    \E r \in Runs :
        /\ <<"tailor_err", 1>> \in thr[r].ev
        /\ <<"submit_ok", 2>> \in thr[r].ev

\* the runner threads that have left run()
LeftRun == {r \in Runs : thr[r].pc \in {"rec_wait", "rec_cs", "clr_wait", "clr_cs"}}

\* C11: finish() is invoked at the end of every run: a run whose discovery
\* failed has left one line in the event log and one row in table runs
\* before the failure reaches the caller.
C11_FinishAfterDiscoveryFailure ==
    \A r \in LeftRun :
        thr[r].msg = ScrapeMsg =>
            /\ \E k \in 1 .. Len(eventLog) : eventLog[k].run_id = r
            /\ \E row \in dbRuns : row.run_id = r

\* no candidate has both an outcome and an error, none has two outcomes
OutcomesAndErrorsDisjoint(t) ==
    /\ \A j \in 1 .. Len(t.results) : \A k \in 1 .. Len(t.errors) :
          t.results[j].job # t.errors[k].job
    /\ \A j, k \in 1 .. Len(t.results) :
          j # k => t.results[j].job # t.results[k].job

\* C12: in every journal state a candidate for which any stage failed is in
\* the error list and not in the outcome list; no candidate has both an
\* outcome and an error, and none has more than one outcome.
C12_FailedCandidateOnlyInErrors ==
    \A r \in Runs :
      LET t == thr[r] IN
        /\ \A e \in Failures(t) :
              /\ \E k \in 1 .. Len(t.errors) : t.errors[k].job = e[2]
              /\ \A k \in 1 .. Len(t.results) : t.results[k].job # e[2]
        /\ OutcomesAndErrorsDisjoint(t)

\* the runner threads whose terminal record is stored
Recorded == {r \in Runs : thr[r].pc \in {"clr_wait", "clr_cs"}}

\* C13: stage-level errors never reach the terminal status.  No step of the
\* candidate loop leaves the loop with an exception; a run in which every
\* candidate failed at tailoring or submission flushes a summary with one
\* error per candidate and no outcome; and a run that run() ended without an
\* exception is recorded "completed" with the number of its outcomes.
C13_StageErrorsNeverTerminal ==
    /\ [][\A r \in Runs :
            (thr[r].pc \in {"tailor", "score", "submit"} /\ thr'[r].pc = "finish")
                => thr'[r].exc = "none"]_vars
    /\ [](\A r \in Runs :
            LET t == thr[r] IN
              (t.pc = "finish" /\ t.exc = "none" /\ t.results = <<>>) =>
                  /\ JobsOf(t.errors) = t.jobs
                  /\ Summary(r).result_count = 0
                  /\ JobsOf(Summary(r).errors) = t.jobs)
    /\ [](\A r \in Recorded :
            thr[r].exc = "none" =>
                latest.status = "completed"
                    /\ latest.total_applications = Len(thr[r].out))

\* the states of the pipeline: discovering, processing(i), finished
InLoop == {"tailor", "score", "submit"}
Phase(t) ==
    IF t.pc \in {"setup", "profile", "discover"} THEN 1
    ELSE IF t.pc \in InLoop THEN 2
    ELSE IF t.pc = "unborn" THEN 0 ELSE 3

\* the candidates a stage has been started for so far
Touched(t) == {e[2] : e \in t.ev}

\* C14: the pipeline only moves forward, discovering -> processing(i) ->
\* finished.  Inside the loop the list of candidates is fixed, the current
\* candidate is jobs[i], the candidates before it are exactly the ones
\* already processed, and a step keeps i or moves to i + 1; the loop is left
\* with i + 1 only after the last candidate, or by an exception; tailoring
\* starts each candidate once.
C14_ForwardOnly ==
    /\ [](\A r \in Runs :
            LET t == thr[r] IN
              t.pc \in InLoop =>
                /\ t.i \in 1 .. Len(t.jobs)
                /\ t.jobs = SubSeq(board, 1, Len(t.jobs))
                /\ Touched(t) \subseteq {t.jobs[k] : k \in 1 .. t.i}
                /\ {t.jobs[k] : k \in 1 .. t.i - 1} \subseteq Touched(t))
    /\ [][\A r \in Runs :
            LET t == thr[r]
                u == thr'[r]
            IN  /\ Phase(u) >= Phase(t)
                /\ (t.pc \in InLoop /\ u.pc \in InLoop) =>
                      /\ u.jobs = t.jobs
                      /\ u.i \in {t.i, t.i + 1}
                      /\ u.i = t.i + 1 => u.pc = "tailor"
                      /\ u.i = t.i => u.pc # "tailor"
                /\ (t.pc \in InLoop /\ u.pc = "finish") =>
                      /\ u.jobs = t.jobs
                      /\ u.exc = "none" => t.i = Len(t.jobs) /\ u.i = t.i + 1
                /\ (t.pc = "tailor" /\ u # t) => t.jobs[t.i] \notin Touched(t)]_vars

\* three candidates were processed in discovery order and the loop has ended
C14_Witness ==
    \E r \in Runs :
        /\ thr[r].pc = "finish"
        /\ thr[r].exc = "none"
        /\ thr[r].jobs = <<1, 2, 3>>
        /\ thr[r].i = 4
        /\ Touched(thr[r]) = {1, 2, 3}

\* the smaller of two numbers
Min(a, b) == IF a < b THEN a ELSE b

\* the set of entries of a sequence
Range(s) == {s[k] : k \in 1 .. Len(s)}

\* C15: with a cap N >= 0 the candidates processed are exactly the first
\* min(N, L) entries of the deduplicated discovery list, in order; without a
\* cap all L entries.  The list is fixed by the slice and not changed
\* afterwards; stages run for its entries only, and for all of them when
\* the loop ends normally.
C15_CapTruncates ==
    /\ [](\A r \in Runs :
            LET t == thr[r] IN
              /\ (t.max_jobs = None /\ t.pc \in {"tailor", "finish"}) =>
                    t.jobs = board
              /\ (t.max_jobs \in {Some(n) : n \in 0 .. MaxJobs + 1}) =>
                    t.jobs = SubSeq(board, 1, Min(t.max_jobs[1], Len(board)))
              /\ t.pc \in InLoop \cup {"finish"} =>
                    /\ Touched(t) \subseteq Range(t.jobs)
                    /\ (t.pc = "finish" /\ t.exc = "none") => Touched(t) = Range(t.jobs))
    /\ [][\A r \in Runs :
            (thr[r].pc \in InLoop /\ thr'[r].pc \in InLoop \cup {"finish"})
                => thr'[r].jobs = thr[r].jobs]_vars

\* three postings were discovered and a cap of 2 kept the first two
C15_Witness ==
    \E r \in Runs :
        /\ Len(board) = 3
        /\ thr[r].max_jobs = Some(2)
        /\ thr[r].pc = "tailor"
        /\ thr[r].jobs = <<1, 2>>

\* the places <<source, n>> of the scraped postings, and their order of scan
Places == {pl \in (1 .. Len(scraped)) \X (1 .. MaxPostings) :
              pl[2] <= Len(scraped[pl[1]])}
At(pl) == scraped[pl[1]][pl[2]]
Before(p, q) == p[1] < q[1] \/ (p[1] = q[1] /\ p[2] < q[2])

\* the place of a posting of the merged list
PlaceOf(posting) == <<posting.source, posting.n>>

\* C16: merge_postings returns a list in which no two postings share a URL,
\* which holds, for every URL scraped, the first posting carrying it (sources
\* in configured order), in the order of those first occurrences.
C16_MergeDedupFirstSeen ==
    merged # None =>
      LET m == merged[1] IN
        /\ \A j, k \in 1 .. Len(m) : j # k => m[j].url # m[k].url
        /\ \A pl \in Places : \E k \in 1 .. Len(m) : m[k].url = At(pl).url
        /\ \A k \in 1 .. Len(m) :
              /\ PlaceOf(m[k]) \in Places
              /\ At(PlaceOf(m[k])) = m[k]
              /\ \A pl \in Places :
                    At(pl).url = m[k].url => ~Before(pl, PlaceOf(m[k]))
        /\ \A j, k \in 1 .. Len(m) :
              j < k => Before(PlaceOf(m[j]), PlaceOf(m[k]))

\* two sources returned the same URL and the merged list holds it once,
\* next to another URL
C16_Witness ==
    /\ merged # None
    /\ Len(merged[1]) = 2
    /\ \E p, q \in Places : p[1] < q[1] /\ At(p).url = At(q).url
    /\ Cardinality(Places) = 3

\* the journals whose finish() is about to assemble, or has assembled, the
\* summary of their current lists
Emitting == {r \in Runs : thr[r].pc \in {"finish", "flushed", "reflushed"}}

RECURSIVE SumOver(_, _)
SumOver(f, S) ==
    IF S = {} THEN 0
    ELSE LET x == CHOOSE y \in S : TRUE IN f[x] + SumOver(f, S \ {x})

\* C17: in every summary finish() emits, result_count is the length of the
\* results list and status_counts holds, for exactly the statuses that
\* occur, the number of outcomes with that status; the counts sum to
\* result_count.
C17_CountsMatchResults ==
    \A r \in Emitting :
      LET sm == Summary(r) IN
        /\ sm.result_count = Len(sm.results)
        /\ DOMAIN sm.status_counts = {sm.results[k].status : k \in 1 .. Len(sm.results)}
        /\ \A st \in DOMAIN sm.status_counts :
              sm.status_counts[st] =
                 Cardinality({k \in 1 .. Len(sm.results) : sm.results[k].status = st})
        /\ SumOver(sm.status_counts, DOMAIN sm.status_counts) = sm.result_count

\* a summary with two outcomes of one status and one of another was written
C17_Witness ==
    \E r \in Runs :
        /\ thr[r].pc = "flushed"
        /\ Len(eventLog) = 1
        /\ Summary(r).result_count = 3
        /\ Summary(r).status_counts =
              ("submitted" :> 2) @@ ("pending-human-review" :> 1)

\* the fit score an outcome is ranked by, a missing score counting as 0
RankKey(record) == IF record.fit_score = None THEN 0 ELSE record.fit_score[1]

\* position p of the outcome list ranks before position q
Outranks(results, p, q) ==
    \/ RankKey(results[p]) > RankKey(results[q])
    \/ RankKey(results[p]) = RankKey(results[q]) /\ p < q

\* the scores 0.2, 0.9, 0.5, 0.9 and none, in this order
ExampleScores == <<Some(2000), Some(9000), Some(5000), Some(9000), None>>

\* C18: top_matches is the first three entries of the outcome list ordered
\* by fit score descending, a missing score ranked as 0 and equal scores in
\* recording order: its j-th entry is the outcome that exactly j - 1 other
\* outcomes rank before.  Scores [0.2, 0.9, 0.5, 0.9, null] give the second,
\* the fourth and the third outcome.
C18_TopThreeStableDescending ==
    \A r \in Emitting :
      LET sm == Summary(r)
          res == sm.results
          top == sm.top_matches
      IN  /\ Len(top) = Min(3, Len(res))
          /\ \A j \in 1 .. Len(top) :
                \E p \in 1 .. Len(res) :
                    /\ top[j] = res[p]
                    /\ Cardinality({q \in 1 .. Len(res) : Outranks(res, q, p)}) = j - 1
          /\ [k \in 1 .. Len(res) |-> res[k].fit_score] = ExampleScores
                => top = <<res[2], res[4], res[3]>>

\* the five outcomes of the example were recorded and the summary written
C18_Witness ==
    \E r \in Runs :
        /\ thr[r].pc = "flushed"
        /\ Len(eventLog) = 1
        /\ [k \in 1 .. Len(thr[r].results) |-> thr[r].results[k].fit_score] = ExampleScores
        /\ JobsOf(Summary(r).top_matches) = <<2, 4, 3>>

\* top is made of entries of res, none used twice; in list order if ordered
Selection(top, res, ordered) ==
    \E f \in [1 .. Len(top) -> 1 .. Len(res)] :
        /\ \A j \in 1 .. Len(top) : top[j] = res[f[j]]
        /\ \A j, k \in 1 .. Len(top) : j # k => f[j] # f[k]
        /\ ordered => \A j, k \in 1 .. Len(top) : j < k => f[j] < f[k]

\* C19 as stated: top_matches is a subsequence of the outcome list, its
\* entries in the same relative order as in results, of length at most 3.
C19_TopIsSubsequence ==
    \A r \in Emitting :
        /\ Len(Summary(r).top_matches) <= 3
        /\ Selection(Summary(r).top_matches, Summary(r).results, TRUE)

\* C19 amended: every entry of top_matches is one of the recorded outcomes,
\* no outcome is used more than once, and there are min(3, n) entries; they
\* stand in order of score, which need not be the order of results.
C19_TopIsSelection ==
    \A r \in Emitting :
        /\ Len(Summary(r).top_matches) = Min(3, Len(Summary(r).results))
        /\ Selection(Summary(r).top_matches, Summary(r).results, FALSE)

\* a written summary whose top_matches reverses the order of two outcomes
C19_Witness ==
    \E r \in Runs :
        /\ thr[r].pc = "flushed"
        /\ Len(eventLog) = 1
        /\ JobsOf(Summary(r).results) = <<1, 2>>
        /\ JobsOf(Summary(r).top_matches) = <<2, 1>>

\* C20: flushing a summary that is already stored leaves the normalized
\* store as it was: one row of runs for the run id and one row of
\* applications per outcome.
C20_IdempotentFlush ==
    [][\A r \in Runs :
          (/\ thr[r].pc = "flushed"
           /\ thr'[r].pc = "reflushed"
           /\ Stored(Summary(r)) \in dbRuns)
              => dbRuns' = dbRuns /\ dbApps' = dbApps]_vars

\* a step in which the journal of thread r runs finish()
FinishStep(r) ==
    \/ thr[r].pc \in {"journal", "flushed"} /\ thr'[r].pc # thr[r].pc
    \/ thr[r].pc = "finish" /\ thr'[r].pc # "finish"

\* the summary was upserted into the store, appended to the log, by this step
Upserted(summary) ==
    /\ Stored(summary) \in dbRuns'
    /\ dbApps' = InsertApplications(dbApps, summary)
Logged(summary) == eventLog' = Append(eventLog, Stored(summary))

\* C21: the two writes of finish() are independent: when the store can be
\* written the summary is upserted even if the append to the event log
\* fails, and when the log can be written the line is appended even if the
\* upsert fails.
C21_WritesIndependent ==
    [][\A r \in Runs :
          (FinishStep(r) /\ thr'[r].faults # <<>>) =>
              /\ ~thr'[r].faults[2] => Upserted(Summary(r))
              /\ ~thr'[r].faults[1] => Logged(Summary(r))]_vars

\* C22: finish() returns normally only if both writes succeeded: a run whose
\* finish() left the log line or the store rows unwritten ends with an error
\* raised to its caller.
C22_SilentSuccessNeedsBothWrites ==
    [][\A r \in Runs :
          (FinishStep(r) /\ thr'[r].exc = "none") =>
              Logged(Summary(r)) /\ Upserted(Summary(r))]_vars

\* a run whose log line was appended and whose upsert failed has left with an
\* error
C22_Witness ==
    \E r \in Runs :
        /\ thr[r].pc = "rec_wait"
        /\ thr[r].exc = "other"
        /\ Len(eventLog) = 1
        /\ dbRuns = {}

\* the finish() of run r wrote its row into the store in this step, which
\* only a finish() that failed nowhere does
Succeeded(r) ==
    /\ FinishStep(r)
    /\ Stored(Summary(r)) \notin dbRuns
    /\ Stored(Summary(r)) \in dbRuns'

\* C23: the event log is append-only: every step leaves it as it was or adds
\* the line of one finishing run at its end, all earlier lines staying in
\* place, and every successful finish() does add its line.
C23_LogAppendOnly ==
    [][/\ \/ eventLog' = eventLog
          \/ \E r \in Runs : FinishStep(r) /\ Logged(Summary(r))
       /\ \A r \in Runs : Succeeded(r) => Logged(Summary(r))]_vars

\* two runs have logged their lines, the older one first
C23_Witness ==
    /\ Len(eventLog) = 2
    /\ eventLog[1].run_id = 1
    /\ eventLog[2].run_id = 2
    /\ \A r \in Runs : Stored([run_id |-> r]) \in dbRuns

\* the threads inside a with self._lock block of the shared tracker
InLock == {t \in Threads : wpc[t] \in {"locked", "sorted", "counted"}}

\* the candidates whose record the shared tracker holds, in both lists
Kept ==
    [i \in 1 .. Len(tracker.results) |-> tracker.results[i].job]
        \o [i \in 1 .. Len(tracker.errors) |-> tracker.errors[i].job]

\* the calls on the shared tracker that have returned
Returned ==
    {n \in 1 .. tcalls :
        \A w \in Workers : wpc[w] = "idle" \/ wrec[w][2].job # n}

IsPrefix(s, t) == Len(s) <= Len(t) /\ s = SubSeq(t, 1, Len(s))

\* C24: several workers may call record_result / record_error on one
\* tracker while finish() runs: every thread inside a with block holds the
\* one lock, every call that returned left exactly one record and nothing
\* else is in the lists, and the summary finish() wrote describes one
\* snapshot of the lists: its count, histogram and top matches are those of
\* its results, which are the lists as they stood, later appends excluded.
C24_SharedTrackerSerialized ==
    /\ \A t \in InLock : tlock = t
    /\ \A t, u \in InLock : t = u
    /\ \A n \in Returned : Cardinality({i \in DOMAIN Kept : Kept[i] = n}) = 1
    /\ \A i \in DOMAIN Kept : Kept[i] \in Returned
    /\ sealed # None =>
         LET s == sealed[1]
         IN  /\ s.result_count = Len(s.results)
             /\ s.status_counts = StatusCounts(s.results)
             /\ s.top_matches = TopMatches(s.results)
             /\ IsPrefix(s.results, tracker.results)
             /\ IsPrefix(s.errors, tracker.errors)

\* finish() wrote a summary of two outcomes, not in the order of their
\* scores, and the record of a later call came into the list afterwards
C24_Witness ==
    /\ sealed # None
    /\ Len(sealed[1].results) = 2
    /\ sealed[1].top_matches # sealed[1].results
    /\ Len(tracker.results) = 3
    /\ tcalls = MaxAppends

\* the journal of run r exists: run() is past discovery and has not left
Journaling(r) == thr[r].pc \in InLoop \cup {"finish"}

\* C25: a run that got past discovery invokes finish() exactly once, after
\* its last record: the loop is left only into finish(), finish() is one
\* step that attempts the writes of the summary of everything recorded and
\* leaves the run, a run that left never comes back to the loop or to
\* finish(), and records are appended inside the loop only.
C25_FinishOnceAfterLastRecord ==
    [][\A r \in Runs :
          LET t == thr[r]
              u == thr'[r]
          IN  /\ t.pc \in InLoop => u.pc \in InLoop \cup {"finish"}
              /\ (t.pc = "finish" /\ u # t) =>
                    /\ u.pc = "rec_wait"
                    /\ \/ Logged(Summary(r)) /\ Upserted(Summary(r))
                       \/ u.exc = "other"
              /\ eventLog' # eventLog => \E q \in Runs : thr[q].pc = "finish" /\ thr'[q].pc # "finish"
              /\ r \in LeftRun => ~Journaling(r)'
              /\ t.pc \notin InLoop =>
                    /\ Len(u.results) <= Len(t.results)
                    /\ Len(u.errors) <= Len(t.errors)]_vars

\* a run over a board of two postings that recorded an outcome has flushed
\* its journal and left without an exception
C25_Witness ==
    \E r \in Runs :
        /\ thr[r].pc = "rec_wait"
        /\ thr[r].exc = "none"
        /\ Len(thr[r].out) = 1
        /\ Len(board) = 2
        /\ Len(dbApps) = 1
        /\ \E k \in 1 .. Len(eventLog) : eventLog[k].run_id = r

\* score() has returned a value
Scored == sout # None /\ sout # Raised

\* C26: for all texts and every configuration (backend present or absent,
\* any fallback weight, any embeddings the backend answers with) the value
\* score() returns lies in the closed interval [0, 1].
C26_ScoreInUnitInterval == Scored => sout[1] \in 0 .. 10000

\* a text that is missing, empty or made of blanks only
BlankText(text) == text = NoText \/ \A k \in DOMAIN text : text[k] = " "

\* C27: when either text is missing, empty or blank after trimming, score()
\* returns exactly 0.0 whatever the other text is and whatever backend is
\* configured, and the backend is not asked.
C27_BlankTextScoresZero ==
    (sout # None /\ (BlankText(sin.resume) \/ BlankText(sin.job))) =>
        sout = Some(0) /\ ~asked

\* a resume of one blank scored 0.0 against a real description, by a scorer
\* whose backend would have found the two texts alike
C27_Witness ==
    /\ sout = Some(0)
    /\ ~asked
    /\ sin.resume = <<" ">>
    /\ sin.job = <<"d", "a", "t", "a">>
    /\ sin.client
    /\ sin.response = [raises |-> FALSE, data |-> <<<<1, 0>>, <<1, 0>>>>]

\* the places <<i, j>> of the tokens of a text: the longest runs of
\* alphanumeric characters, those of more than two characters
TokenPlaces(text) ==
    LET starts == {i \in 1 .. Len(text) :
                     IsAlnum(text[i]) /\ (i = 1 \/ ~IsAlnum(text[i - 1]))}
        ends == {j \in 1 .. Len(text) :
                   IsAlnum(text[j]) /\ (j = Len(text) \/ ~IsAlnum(text[j + 1]))}
    IN  {p \in starts \X ends :
            /\ p[2] - p[1] + 1 > 2
            /\ \A k \in p[1] .. p[2] : IsAlnum(text[k])}

\* the token at a place, in lower case
TokenAt(text, p) == LowerText(SubSeq(text, p[1], p[2]))

\* how often a token occurs in a text
Occurrences(text, token) ==
    Cardinality({p \in TokenPlaces(text) : TokenAt(text, p) = token})

RECURSIVE SharedCount(_, _, _)
SharedCount(tokens, source, target) ==
    IF tokens = {} THEN 0
    ELSE LET token == CHOOSE x \in tokens : TRUE
         IN  Min(Occurrences(source, token), Occurrences(target, token))
               + SharedCount(tokens \ {token}, source, target)

\* the multiset-intersection overlap of source and target as a fraction
LexicalShare(source, target) ==
    LET both == {TokenAt(source, p) : p \in TokenPlaces(source)}
                    \cap {TokenAt(target, p) : p \in TokenPlaces(target)}
        total == Cardinality(TokenPlaces(target))
        shared == SharedCount(both, source, target)
    IN  IF TokenPlaces(source) = {} \/ total = 0 THEN <<0, 1>>
        ELSE IF shared > total THEN <<1, 1>>
        ELSE <<shared, total>>

\* r ten-thousandths is a nearest one to the fraction x
Nearest(r, x) ==
    LET off == 10000 * x[1] - r * x[2]
    IN  2 * off <= x[2] /\ 2 * off >= 0 - x[2]

\* the texts as score() reads them
ResumeText == IF sin.resume = NoText THEN <<>> ELSE sin.resume
JobText == IF sin.job = NoText THEN <<>> ELSE sin.job

\* C28: the lexical signal is the multiset-intersection overlap: with the
\* tokens got by lower-casing, splitting on every non-alphanumeric character
\* and dropping tokens of length <= 2, it is the sum over the tokens of both
\* texts of min(count in source, count in target) divided by the number of
\* tokens of the target, at most 1.0, and 0.0 when either text has no token;
\* a scorer without backend returns it, rounded.
C28_LexicalIsMultisetOverlap ==
    (sout # None /\ ~BlankText(sin.resume) /\ ~BlankText(sin.job)) =>
        LET lexical == keyword_overlap(ResumeText, JobText)
            share == LexicalShare(ResumeText, JobText)
        IN  /\ lexical[1] * share[2] = share[1] * lexical[2]
            /\ ~sin.client => Scored /\ Nearest(sout[1], share)

\* "Data data" against "data go-sql": data is counted once of the two
\* tokens data and sql, go is dropped: 0.5
C28_Witness ==
    /\ sout = Some(5000)
    /\ ~sin.client
    /\ sin.resume = <<"D", "a", "t", "a", " ", "d", "a", "t", "a">>
    /\ sin.job = <<"d", "a", "t", "a", " ", "g", "o", "-", "s", "q", "l">>

\* neither text is blank: score() goes on to the signals
BothTexts == ~BlankText(sin.resume) /\ ~BlankText(sin.job)

\* the backend did not give a similarity: there is no client, the request
\* raised, fewer than two embeddings came back, or two of unequal length
BackendFailed ==
    \/ ~sin.client
    \/ sin.response.raises
    \/ Len(sin.response.data) < 2
    \/ Len(sin.response.data[1]) # Len(sin.response.data[2])

\* C29: when the embedding signal succeeded the score is
\* external * (1 - w) + lexical * w with w the fallback weight clamped to
\* [0, 1]; when it is absent or failed the score is the lexical signal
\* alone; the result is rounded to 4 decimal places.
C29_BlendRule ==
    (sout # None /\ BothTexts) =>
        /\ Scored
        /\ LET lexical == keyword_overlap(ResumeText, JobText)
               w == IF sin.weight < 0 THEN 0
                    ELSE IF sin.weight > 10 THEN 10 ELSE sin.weight
           IN  IF BackendFailed THEN Nearest(sout[1], lexical)
               ELSE LET external == cosine(sin.response.data[1],
                                           sin.response.data[2])
                    IN  Nearest(sout[1],
                                <<external[1] * (10 - w) * lexical[2]
                                     + lexical[1] * w * external[2],
                                  10 * external[2] * lexical[2]>>)

\* similarity 1.0 and lexical signal 0.5 blended with weight 0.7: 0.65
C29_Witness ==
    /\ sout = Some(6500)
    /\ sin.client
    /\ sin.weight = 7
    /\ sin.response = [raises |-> FALSE, data |-> <<<<1, 0>>, <<1, 0>>>>]
    /\ sin.resume = <<"D", "a", "t", "a", " ", "d", "a", "t", "a">>
    /\ sin.job = <<"d", "a", "t", "a", " ", "g", "o", "-", "s", "q", "l">>

\* C30: any failure of the embedding backend (a request that raises, a
\* short or malformed answer, a missing credential, an unsupported
\* provider) makes score() return what a scorer without backend returns for
\* the same texts, and score() never raises because of the backend.
C30_BackendFailureDegrades ==
    sout # None =>
        /\ Scored
        /\ BackendFailed => sout = score([sin EXCEPT !.client = FALSE])

\* a scorer whose backend answered with one embedding only returned the
\* lexical signal 0.5
C30_Witness ==
    /\ sout = Some(5000)
    /\ asked
    /\ sin.response = [raises |-> FALSE, data |-> <<<<1, 0>>>>]
    /\ sin.resume = <<"D", "a", "t", "a", " ", "d", "a", "t", "a">>
    /\ sin.job = <<"d", "a", "t", "a", " ", "g", "o", "-", "s", "q", "l">>

\* the sum of a[k] * b[k] over the places of a
RECURSIVE DotUpTo(_, _, _)
DotUpTo(a, b, n) == IF n = 0 THEN 0 ELSE a[n] * b[n] + DotUpTo(a, b, n - 1)

\* n is the length |a| of the vector a
IsNorm(n, a) == n >= 0 /\ n * n = DotUpTo(a, a, Len(a))

\* C31: embeddings of different lengths fail loudly: the similarity ends in
\* an error, it is never a number computed over a truncated pair, and
\* score() then returns what it returns without backend; for vectors of
\* equal length the similarity is dot(a, b) / (|a| |b|), and 0.0 when either
\* vector has norm zero.
C31_MismatchFailsLoudly ==
    (sin # None /\ Len(sin.response.data) = 2) =>
        LET a == sin.response.data[1]
            b == sin.response.data[2]
            similarity == cosine(a, b)
        IN  IF Len(a) # Len(b)
            THEN /\ similarity = Exc
                 /\ (sout # None /\ asked) =>
                       sout = score([sin EXCEPT !.client = FALSE])
            ELSE /\ similarity # Exc
                 /\ similarity[2] > 0
                 /\ \A na, nb \in 0 .. 5 :
                       (IsNorm(na, a) /\ IsNorm(nb, b)) =>
                           IF na = 0 \/ nb = 0 THEN similarity[1] = 0
                           ELSE similarity[1] * na * nb
                                  = DotUpTo(a, b, Len(a)) * similarity[2]

\* the backend answered with embeddings of lengths 2 and 1 and score()
\* returned the lexical signal 0.5
C31_Witness ==
    /\ sout = Some(5000)
    /\ asked
    /\ sin.response = [raises |-> FALSE, data |-> <<<<1, 0>>, <<1>>>>]
    /\ sin.resume = <<"D", "a", "t", "a", " ", "d", "a", "t", "a">>
    /\ sin.job = <<"d", "a", "t", "a", " ", "g", "o", "-", "s", "q", "l">>

\* the tokens of a text, as a set
Vocabulary(text) == {TokenAt(text, p) : p \in TokenPlaces(text)}

\* a scorer without backend is asked for texts of disjoint vocabularies
UnrelatedLexical ==
    /\ sout # None
    /\ ~sin.client
    /\ Vocabulary(ResumeText) \cap Vocabulary(JobText) = {}

\* what the same scorer returns for the resume against itself
ScoreOfSelf == score([sin EXCEPT !.job = sin.resume])

\* C32 as stated: for every non-empty text x and every text u whose
\* vocabulary is disjoint from x's, score(x, x) is strictly greater than
\* score(x, u) under lexical-only scoring.
C32_SelfBeatsUnrelated ==
    (UnrelatedLexical /\ ResumeText # <<>>) => ScoreOfSelf[1] > sout[1]

\* C32 amended: for every text x that has a token (a run of more than two
\* alphanumeric characters) and every text u of disjoint vocabulary,
\* score(x, x) is 1.0 and score(x, u) is 0.0 under lexical-only scoring; a
\* non-empty x without a token scores 0.0 against itself as against u.
C32_SelfBeatsUnrelatedWithToken ==
    UnrelatedLexical =>
        /\ sout = Some(0)
        /\ ScoreOfSelf = IF Vocabulary(ResumeText) # {} THEN Some(10000)
                         ELSE Some(0)

\* "Data data" scored 0.0 against "go-sql" and scores 1.0 against itself
C32_Witness ==
    /\ UnrelatedLexical
    /\ sin.resume = <<"D", "a", "t", "a", " ", "d", "a", "t", "a">>
    /\ sin.job = <<"g", "o", "-", "s", "q", "l">>
    /\ sout = Some(0)
    /\ ScoreOfSelf = Some(10000)

\* needle occurs in hay, both in lower case
OccursIn(needle, hay) ==
    \E i \in 1 .. Len(hay) + 1 :
        \A k \in 1 .. Len(needle) :
            /\ i + k - 1 <= Len(hay)
            /\ LowerChar(hay[i + k - 1]) = LowerChar(needle[k])

\* a text, None read as the empty text
TextOf(value) == IF value = NoText THEN <<>> ELSE value

\* at least one keyword of the query occurs in the title, the description
\* or a tag of the entry
KeywordOccurs(job, query) ==
    \E k \in 1 .. Len(query.keywords) :
        \/ OccursIn(query.keywords[k], TextOf(job.position))
        \/ OccursIn(query.keywords[k], TextOf(job.description))
        \/ \E t \in 1 .. Len(job.tags) :
              OccursIn(query.keywords[k], TextOf(job.tags[t]))

SameLetters(s, t) ==
    Len(s) = Len(t) /\ \A k \in 1 .. Len(s) : LowerChar(s[k]) = LowerChar(t[k])

\* the location text equals a location of the query or contains "remote"
LocationFits(location, query) ==
    \/ \E k \in 1 .. Len(query.locations) : SameLetters(location, query.locations[k])
    \/ OccursIn(<<"r", "e", "m", "o", "t", "e">>, location)

AmountChars == {"0", "1", "2", "9", ","}

\* the places <<i, j>> of the amounts of a salary text: from a digit that no
\* earlier amount holds, over digits and commas as far as they go
AmountPlaces(text) ==
    {p \in (1 .. Len(text)) \X (1 .. Len(text)) :
        /\ p[1] <= p[2]
        /\ text[p[1]] \in AmountChars \ {","}
        /\ \A k \in p[1] .. p[2] : text[k] \in AmountChars
        /\ p[2] = Len(text) \/ text[p[2] + 1] \notin AmountChars
        /\ \E h \in 0 .. p[1] - 1 :
              /\ h = 0 \/ text[h] \notin AmountChars
              /\ \A k \in h + 1 .. p[1] - 1 : text[k] = ","}

\* the number written at text[i .. j], commas left out
RECURSIVE NumberAt(_, _, _)
NumberAt(text, i, j) ==
    IF j < i THEN 0
    ELSE IF text[j] = "," THEN NumberAt(text, i, j - 1)
    ELSE 10 * NumberAt(text, i, j - 1)
           + (CHOOSE d \in 0 .. 9 : <<"0", "1", "2", "3", "4", "5", "6", "7", "8", "9">>[d + 1] = text[j])

\* the amounts of a salary text
AmountsOf(salary) ==
    {NumberAt(TextOf(salary), p[1], p[2]) : p \in AmountPlaces(TextOf(salary))}

\* the salary text has an amount and the smallest one is at least the floor
SalaryAtLeast(salary, floor) ==
    /\ AmountsOf(salary) # {}
    /\ \A a \in AmountsOf(salary) : a >= floor

\* the scraper returned the entries at the places K, in input order, cut to
\* max_results
ReturnedAre(K) ==
    LET inp == rok.inp
        out == rok.out[1]
        count == IF Cardinality(K) < inp.max_results THEN Cardinality(K)
                 ELSE inp.max_results
    IN  /\ ~out.raised
        /\ Len(out.jobs) = count
        /\ \A i \in 1 .. count :
              \E k \in K :
                  /\ Cardinality({j \in K : j <= k}) = i
                  /\ out.jobs[i].url = inp.fetched[k].url

\* the scraper has answered a request that succeeded
Searched == rok # None /\ rok.out # None /\ ~rok.inp.fetch_fails

\* C33 as stated: a posting is kept exactly when (1) at least one keyword
\* of the query occurs, case-insensitively, in its title, description or
\* tags, (2) its location equals a location of the query case-insensitively
\* or contains "remote", and (3) no minimum compensation is set or its
\* salary text has a smallest amount of at least the floor; the result is
\* in input order, cut to max_results.
C33_KeepsExactlyMatching ==
    Searched =>
        ReturnedAre({k \in 1 .. Len(rok.inp.fetched) :
            LET job == rok.inp.fetched[k]
                query == rok.inp.query
            IN  /\ KeywordOccurs(job, query)
                /\ LocationFits(TextOf(job.location), query)
                /\ \/ query.min_compensation = None
                   \/ SalaryAtLeast(job.salary, query.min_compensation[1])})

\* C33 amended: a criterion that the query leaves empty does not filter, and
\* a posting without location counts as "Remote".  A posting is kept
\* exactly when (1) the query has no keyword or one of them occurs in title,
\* description or tags, (2) the query has no location or the posting's
\* location equals one of them or contains "remote", (3) the floor is
\* missing or 0 or the salary text has a smallest amount of at least the
\* floor.  A kept posting carries that smallest amount as minimum and, when
\* the text has several amounts, the largest as maximum.  The result is in
\* input order, cut to max_results.
C33_KeepsMatchingOrUnconstrained ==
    Searched =>
        /\ ReturnedAre({k \in 1 .. Len(rok.inp.fetched) :
             LET job == rok.inp.fetched[k]
                 query == rok.inp.query
                 location == IF TextOf(job.location) = <<>>
                             THEN <<"R", "e", "m", "o", "t", "e">>
                             ELSE job.location
             IN  /\ query.keywords = <<>> \/ KeywordOccurs(job, query)
                 /\ query.locations = <<>> \/ LocationFits(location, query)
                 /\ \/ query.min_compensation \in {None, Some(0)}
                    \/ SalaryAtLeast(job.salary, query.min_compensation[1])})
        /\ \A i \in 1 .. Len(rok.out[1].jobs) :
              \E k \in 1 .. Len(rok.inp.fetched) :
                 LET amounts == AmountsOf(rok.inp.fetched[k].salary)
                     salary == rok.out[1].jobs[i].salary
                 IN  /\ rok.inp.fetched[k].url = rok.out[1].jobs[i].url
                     /\ amounts = {} => salary = None
                     /\ amounts # {} =>
                          /\ salary # None
                          /\ salary[1].minimum[1] \in amounts
                          /\ \A a \in amounts : a >= salary[1].minimum[1]
                          /\ Cardinality(amounts) > 1 =>
                               /\ salary[1].maximum # None
                               /\ salary[1].maximum[1] \in amounts
                               /\ \A a \in amounts : a <= salary[1].maximum[1]

\* of two entries the second was kept and the first dropped, under a query
\* with a keyword, a location and a floor
C33_Witness ==
    /\ Searched
    /\ Len(rok.inp.fetched) = 2
    /\ rok.inp.query.keywords # <<>>
    /\ rok.inp.query.locations # <<>>
    /\ rok.inp.query.min_compensation = Some(1200)
    /\ Len(rok.out[1].jobs) = 1
    /\ rok.out[1].jobs[1].url = 2
    /\ rok.out[1].jobs[1].salary = Some([minimum |-> Some(1200), maximum |-> None])
    /\ rok.out[1].jobs[1].title = <<"D", "e", "v">>

\* the Lever bot's call has returned or raised
Submitted == bot # None /\ bot.out # None

\* the urls of the postings Lever hosts
LeverUrls == {<<"l", "e", "v", "e", "r", ".", "c", "o">>,
              <<"L", "E", "V", "E", "R", ".", "C", "O">>}

\* the bot refuses the call before it touches the browser
Refused == bot.inp.url \notin LeverUrls \/ ~bot.inp.playwright

\* the submit button was clicked
Clicked == \E k \in 1 .. Len(bot.out[1].done) : bot.out[1].done[k] = "click"

\* the status the claim gives a call that is not refused
ClaimedStatus ==
    IF bot.inp.auto_submit /\ bot.inp.has_submit THEN "submitted"
    ELSE IF bot.inp.auto_submit THEN "review-required"
    ELSE "ready-for-review"

\* the step that raises is one this call gets to
FaultMet ==
    \/ bot.inp.fault \in {"launch", "goto", "fill", "close"}
    \/ bot.inp.fault = "locate" /\ bot.inp.auto_submit
    \/ /\ bot.inp.fault \in {"click", "wait"}
       /\ bot.inp.auto_submit /\ bot.inp.has_submit

\* C34 as stated: a posting that is not Lever's, or a missing Playwright,
\* fails the call with ApplicationError before any browser step; every other
\* call returns 'submitted' (auto_submit on, button found and clicked),
\* 'review-required' (auto_submit on, no button) or 'ready-for-review'
\* (auto_submit off), and clicks the button in the first case only.
C34_OutcomeDecided ==
    Submitted =>
        IF Refused
        THEN /\ bot.out[1].raised = Some("ApplicationError")
             /\ bot.out[1].done = <<>>
        ELSE /\ bot.out[1].raised = None
             /\ bot.out[1].status = Some(ClaimedStatus)
             /\ Clicked <=> ClaimedStatus = "submitted"

\* C34 amended: the same, for the calls none of whose steps raises.  A call
\* that cannot write the resume file fails with that error before any browser
\* step; a call one of whose browser steps raises fails with
\* ApplicationError, having clicked the button only when auto_submit is on
\* and the button was found.
C34_OutcomeDecidedUnlessFault ==
    Submitted =>
        IF Refused
        THEN /\ bot.out[1].raised = Some("ApplicationError")
             /\ bot.out[1].done = <<>>
        ELSE IF bot.inp.fault = "tempfile"
        THEN /\ bot.out[1].raised = Some("OSError")
             /\ bot.out[1].done = <<>>
        ELSE IF FaultMet
        THEN /\ bot.out[1].raised = Some("ApplicationError")
             /\ bot.out[1].status = None
             /\ Clicked => bot.inp.auto_submit /\ bot.inp.has_submit
        ELSE /\ bot.out[1].raised = None
             /\ bot.out[1].status = Some(ClaimedStatus)
             /\ Clicked <=> ClaimedStatus = "submitted"

\* C34 witness: a posting whose url names Lever in capitals, auto_submit on
\* and no submit button on the page: the call returned 'review-required'
\* after the form was filled and nothing was clicked
C34_Witness ==
    /\ Submitted
    /\ bot.inp.url = <<"L", "E", "V", "E", "R", ".", "C", "O">>
    /\ bot.inp.auto_submit /\ ~bot.inp.has_submit
    /\ bot.out[1].status = Some("review-required")
    /\ bot.out[1].done = <<"launch", "goto", "fill", "locate", "close">>

\* the tailor's call has returned or raised
TailorDone == tlr # None /\ tlr.out # None

\* the tailor has a backend: an OpenAI provider with its key and package
HasBackend ==
    /\ tlr.inp.provider \in {<<"o", "p", "e", "n", "a", "i">>,
                             <<"O", "p", "e", "n", "A", "I">>}
    /\ tlr.inp.api_key
    /\ tlr.inp.importable

\* the provider answered with text
Answered ==
    /\ ~tlr.inp.response.fails
    /\ \/ tlr.inp.response.output_text \notin {<<>>, <<"None">>}
       \/ \E k \in 1 .. Len(tlr.inp.response.messages) :
              tlr.inp.response.messages[k] # <<>>

\* the text of the provider's answer, without the blanks around it
AnswerText ==
    CASE tlr.inp.response.output_text = <<"a", " ">> -> <<"a">>
      [] tlr.inp.response.output_text = <<" ">> -> <<>>
      [] tlr.inp.response.messages = <<<<>>, <<" ", "e">>>> -> <<"e">>
      [] tlr.inp.response.messages = <<<<"c", "v">>>> -> <<"c", "v">>
      [] OTHER -> <<"None">>

\* C35: tailor() either returns a document or raises TailoringError and
\* nothing else.  A returned document holds what the LLM client generated
\* (the provider's text without the blanks around it) when the client is
\* available, and exactly the profile's base resume,
\* with the client never asked, when it is not; a missing backend alone
\* never makes the call fail.
C35_TailorOutcome ==
    TailorDone =>
        LET out == tlr.out[1]
        IN  /\ out.raised \in {None, Some("TailoringError")}
            /\ out.raised = None <=> out.text # None
            /\ out.raised = None /\ HasBackend =>
                   /\ out.asked
                   /\ out.text = out.generated
                   /\ out.text = Some(AnswerText)
            /\ HasBackend /\ Answered /\ tlr.inp.description # <<"None">> =>
                   out.raised = None
            /\ out.raised = None /\ ~HasBackend =>
                   ~out.asked /\ out.text = Some(tlr.inp.base)
            /\ ~HasBackend /\ tlr.inp.description # <<"None">> =>
                   out.raised = None

\* C35 witness: without an API key the tailor returned the base resume
\* although the provider would have answered with other text
C35_Witness ==
    /\ TailorDone
    /\ ~tlr.inp.api_key
    /\ tlr.inp.base = <<"c", "v">>
    /\ ~tlr.inp.response.fails
    /\ tlr.out[1].text = Some(<<"c", "v">>)
    /\ tlr.out[1].raised = None

\* a record that a run left when it ended
TerminalRec(rec) == rec # NoRecord /\ rec.status \in {"completed", "failed"}

\* C36: whenever the supervisor is not running, its latest record is absent
\* or terminal ('completed' or 'failed'), and a 'running' record is there
\* only while running is true; the same holds of every pair (running,
\* latest) that status() has read.
C36_IdleShowsTerminal ==
    /\ ~active => latest = NoRecord \/ TerminalRec(latest)
    /\ latest # NoRecord /\ latest.status = "running" => active
    /\ view # NoView /\ ~view.running =>
           view.latest = NoRecord \/ TerminalRec(view.latest)
    /\ view # NoView /\ view.latest # NoRecord
           /\ view.latest.status = "running" => view.running

\* C36 witness: the only run so far has failed and its thread has ended, the
\* supervisor is idle again and status() has read running = false together
\* with the 'failed' record
C36_Witness ==
    /\ ~active
    /\ nthreads = 1
    /\ thr[1] = DoneThread
    /\ latest # NoRecord
    /\ latest.status = "failed"
    /\ latest.notes # None
    /\ view # NoView
    /\ ~view.running
    /\ view.latest = latest

\* the candidates whose loop body has ended when run r reaches finish()
Covered(r) == IF thr[r].jobs = <<>> THEN 0 ELSE thr[r].i - 1

\* the place of a record's candidate in the list the loop goes through
CandidatePlace(r, rec) ==
    CHOOSE k \in 1 .. Len(thr[r].jobs) : thr[r].jobs[k] = rec.job

\* records in candidate order
InCandidateOrder(r, recs) ==
    \A a, b \in 1 .. Len(recs) :
        a < b => CandidatePlace(r, recs[a]) < CandidatePlace(r, recs[b])

\* the records the journal of run r holds for candidate number k
RecordsFor(r, k) ==
    Cardinality({a \in 1 .. Len(thr[r].results) :
                    thr[r].results[a].job = thr[r].jobs[k]})
    + Cardinality({a \in 1 .. Len(thr[r].errors) :
                      thr[r].errors[a].job = thr[r].jobs[k]})

\* C37: when finish() is called the journal holds exactly one record, a
\* result or an error, for every candidate whose loop body has ended, the
\* results and the errors each in candidate order; in a run in which only
\* tailoring and submission fail these are all N candidates, so that
\* len(results) + len(errors) = N.
C37_OneRecordPerCandidate ==
    \A r \in Runs :
        thr[r].pc = "finish" =>
            /\ Len(thr[r].results) + Len(thr[r].errors) = Covered(r)
            /\ thr[r].exc = "none" => Covered(r) = Len(thr[r].jobs)
            /\ \A k \in 1 .. Covered(r) : RecordsFor(r, k) = 1
            /\ InCandidateOrder(r, thr[r].results)
            /\ InCandidateOrder(r, thr[r].errors)

\* C37 witness: finish() is about to run after three candidates, of which
\* the second was submitted and the first and the third failed, one in
\* tailoring and one in submission
C37_Witness ==
    /\ thr[1].pc = "finish"
    /\ thr[1].exc = "none"
    /\ Len(thr[1].jobs) = 3
    /\ Len(thr[1].results) = 1
    /\ thr[1].results[1].job = thr[1].jobs[2]
    /\ Len(thr[1].errors) = 2
    /\ thr[1].errors[1].job = thr[1].jobs[1]
    /\ thr[1].errors[2].job = thr[1].jobs[3]
    /\ <<"tailor_err", thr[1].jobs[1]>> \in thr[1].ev
    /\ <<"submit_err", thr[1].jobs[3]>> \in thr[1].ev

\* the event log holds a line of run id
HasLine(id) == \E k \in 1 .. Len(eventLog) : eventLog[k].run_id = id

\* C38: every run that the store holds, as a row of table runs or as rows
\* of table applications, already has its line in the event log: finish()
\* appends the line first and writes the store only when the append
\* succeeded.
C38_StoredRunsAreLogged ==
    /\ \A row \in dbRuns : HasLine(row.run_id)
    /\ \A k \in 1 .. Len(dbApps) : HasLine(dbApps[k].run_id)

\* C38 witness: two runs have ended; both have their line in the log, the
\* store failed for the first and holds the second
C38_Witness ==
    /\ Len(eventLog) = 2
    /\ eventLog[1].run_id = 1
    /\ eventLog[2].run_id = 2
    /\ dbRuns = {[run_id |-> 2]}

\* the reader's call has returned
Loaded == rdr # None /\ rdr.out # None

\* the lines that hold a well-formed record
GoodLines == {<<"{", "1", "}", "\n">>, <<" ", "{", "2", "}", " ", "\n">>}

\* the record such a line holds
RecordOfLine(line) ==
    IF line = <<"{", "1", "}", "\n">> THEN [run_id |-> 1] ELSE [run_id |-> 2]

\* the lines of the log the call was made on
LinesRead == IF rdr.inp.file = None THEN <<>> ELSE rdr.inp.file[1]

\* the places, among the last limit lines, of the well-formed ones
GoodPlaces ==
    {k \in 1 .. Len(LinesRead) :
        /\ k > Len(LinesRead) - rdr.inp.limit
        /\ LinesRead[k] \in GoodLines}

\* the j-th of those places, counted from the oldest
NthGoodPlace(j) ==
    CHOOSE k \in GoodPlaces : Cardinality({i \in GoodPlaces : i <= k}) = j

\* C39: load_recent_runs(limit) returns the records of exactly those of the
\* last limit lines of the log that are not blank and are well-formed,
\* oldest first; hence at most limit records, and none when the log does not
\* exist; the log is left as it was.
C39_LastLinesParsed ==
    Loaded =>
        LET runs == rdr.out[1]
        IN  /\ Len(runs) = Cardinality(GoodPlaces)
            /\ \A j \in 1 .. Len(runs) :
                   runs[j] = RecordOfLine(LinesRead[NthGoodPlace(j)])
            /\ Len(runs) <= rdr.inp.limit
            /\ rdr.inp.file = None => runs = <<>>
            /\ rdr.file = rdr.inp.file

\* C39 witness: of a log of three lines, a record, a record cut short and a
\* record, a call with limit 2 returned the last record alone
C39_Witness ==
    /\ Loaded
    /\ rdr.inp.limit = 2
    /\ rdr.inp.file = Some(<<<<"{", "1", "}", "\n">>, <<"{", "3", "\n">>,
                             <<" ", "{", "2", "}", " ", "\n">>>>)
    /\ rdr.out[1] = <<[run_id |-> 2]>>

\* C40: whatever integer cap N a run is given, zero and negative ones
\* included, the list it goes through has at most max(N, 0) candidates.
C40_CapBoundsProcessed ==
    \A r \in Runs :
        Len(thr[r].max_jobs) = 1 =>
            Len(thr[r].jobs) <= (IF thr[r].max_jobs[1] > 0
                                 THEN thr[r].max_jobs[1] ELSE 0)

====
